---------------------------- MODULE Spec2Model ----------------------------
(***************************************************************************)
(* Model of the Reddit job-intelligence pipeline: the rule-based NLP       *)
(* enrichment (src/nlp/enrichment.py over the catalogs of src/config.py),  *)
(* the persistence operations (src/db.py) and the pipeline driver          *)
(* (src/pipeline/run.py).                                                  *)
(*                                                                         *)
(* Text is modelled by TLA+ strings; `in`, lower() and string comparison   *)
(* are computed character by character.  Scores that the program keeps as  *)
(* floats rounded to 3 decimals are kept as integers in thousandths.       *)
(* Python's None is the empty tuple and a present value v is <<v>>.        *)
(***************************************************************************)
EXTENDS Integers, Sequences, FiniteSets, Bags, TLC

-----------------------------------------------------------------------------
(* Pattern catalog (src/config.py).  A dict is a sequence of <<key, list>>  *)
(* pairs in declaration order, which is the dict's iteration order.         *)

\* config.py TECH_KEYWORDS: technology name -> trigger phrases, in declaration order.
TECH_KEYWORDS ==
  << <<"Python", <<"python">>>>,
     <<"JavaScript", <<"javascript", "js">>>>,
     <<"TypeScript", <<"typescript", "ts">>>>,
     <<"Java", <<"java">>>>,
     <<"C++", <<"c++", "cpp">>>>,
     <<"C#", <<"c#", "csharp", ".net">>>>,
     <<"Go", <<"golang">>>>,
     <<"Rust", <<"rust">>>>,
     <<"Ruby", <<"ruby", "rails", "ruby on rails">>>>,
     <<"PHP", <<"php">>>>,
     <<"Swift", <<"swift">>>>,
     <<"Kotlin", <<"kotlin">>>>,
     <<"Scala", <<"scala">>>>,
     <<"R", <<"rstudio", "r programming", "r language">>>>,
     <<"SQL", <<"sql", "mysql", "postgresql", "postgres", "sqlite">>>>,
     <<"NoSQL", <<"nosql", "mongodb", "dynamodb", "cassandra", "couchdb">>>>,
     <<"React", <<"react", "reactjs", "react.js">>>>,
     <<"Angular", <<"angular">>>>,
     <<"Vue.js", <<"vue", "vuejs", "vue.js">>>>,
     <<"Node.js", <<"node", "nodejs", "node.js">>>>,
     <<"Django", <<"django">>>>,
     <<"Flask", <<"flask">>>>,
     <<"FastAPI", <<"fastapi">>>>,
     <<"Spring", <<"spring", "spring boot">>>>,
     <<"Docker", <<"docker">>>>,
     <<"Kubernetes", <<"kubernetes", "k8s">>>>,
     <<"AWS", <<"aws", "amazon web services", "ec2", "s3", "lambda">>>>,
     <<"Azure", <<"azure">>>>,
     <<"GCP", <<"gcp", "google cloud">>>>,
     <<"Terraform", <<"terraform">>>>,
     <<"Jenkins", <<"jenkins">>>>,
     <<"Git", <<"git", "github", "gitlab">>>>,
     <<"Linux", <<"linux", "ubuntu", "centos">>>>,
     <<"TensorFlow", <<"tensorflow">>>>,
     <<"PyTorch", <<"pytorch">>>>,
     <<"Pandas", <<"pandas">>>>,
     <<"Spark", <<"spark", "pyspark">>>>,
     <<"Airflow", <<"airflow">>>>,
     <<"Kafka", <<"kafka">>>>,
     <<"Redis", <<"redis">>>>,
     <<"Elasticsearch", <<"elasticsearch", "elastic">>>>,
     <<"GraphQL", <<"graphql">>>>,
     <<"REST", <<"rest api", "restful">>>>,
     <<"CI/CD", <<"ci/cd", "cicd", "continuous integration">>>>,
     <<"Tableau", <<"tableau">>>>,
     <<"Power BI", <<"power bi", "powerbi">>>>,
     <<"Figma", <<"figma">>>>,
     <<"Jira", <<"jira">>>>,
     <<"Agile", <<"agile", "scrum">>>> >>

\* config.py JOB_TYPE_PATTERNS.
JOB_TYPE_PATTERNS ==
  << <<"Full-time", <<"full-time", "full time", "ft", "permanent", "salaried">>>>,
     <<"Contract", <<"contract", "contractor", "c2c", "w2", "corp-to-corp">>>>,
     <<"Freelance", <<"freelance", "freelancer", "gig", "project-based", "per project">>>>,
     <<"Internship", <<"intern", "internship", "co-op", "coop", "trainee">>>>,
     <<"Part-time", <<"part-time", "part time", "pt">>>> >>

\* config.py SENIORITY_PATTERNS.
SENIORITY_PATTERNS ==
  << <<"Junior", <<"junior", "jr", "entry level", "entry-level", "associate", "graduate", "new grad">>>>,
     <<"Mid", <<"mid-level", "mid level", "intermediate", "2-5 years", "3+ years">>>>,
     <<"Senior", <<"senior", "sr", "experienced", "5+ years", "7+ years", "lead developer">>>>,
     <<"Lead", <<"lead", "principal", "staff", "architect", "head of", "director", "vp", "manager">>>> >>

\* config.py DOMAIN_PATTERNS.
DOMAIN_PATTERNS ==
  << <<"Data", <<"data engineer", "data scientist", "data analyst", "machine learning", "ml", "ai", "analytics", "bi ", "business intelligence", "etl", "data pipeline">>>>,
     <<"Software", <<"software engineer", "software developer", "backend", "frontend", "full stack", "fullstack", "web developer", "mobile developer", "swe", "sde">>>>,
     <<"DevOps", <<"devops", "sre", "site reliability", "infrastructure", "platform engineer", "cloud engineer">>>>,
     <<"Design", <<"designer", "ux", "ui", "product design", "graphic design", "figma">>>>,
     <<"Marketing", <<"marketing", "seo", "content", "growth", "social media", "digital marketing">>>>,
     <<"Product", <<"product manager", "product owner", "pm", "program manager">>>>,
     <<"Security", <<"security", "cybersecurity", "infosec", "penetration", "soc analyst">>>>,
     <<"QA", <<"qa", "quality assurance", "test engineer", "testing", "automation test">>>> >>

\* config.py WORK_MODE_PATTERNS.
WORK_MODE_PATTERNS ==
  << <<"Remote", <<"remote", "work from home", "wfh", "anywhere", "distributed", "telecommute">>>>,
     <<"Hybrid", <<"hybrid", "flex", "partially remote", "2 days", "3 days in office">>>>,
     <<"On-site", <<"on-site", "onsite", "in-office", "in office", "on site", "relocate">>>> >>

\* config.py JOB_POSITIVE_PATTERNS.
JOB_POSITIVE_PATTERNS ==
  << "hiring", "job opening", "we're looking", "we are looking", "job opportunity",
     "apply", "application", "position", "role", "vacancy",
     "seeking", "wanted", "join our team", "open position", "job posting",
     "[hiring]", "[for hire]", "looking to hire", "need a developer", "salary",
     "compensation", "benefits", "equity" >>

\* config.py JOB_NEGATIVE_PATTERNS.
JOB_NEGATIVE_PATTERNS ==
  << "looking for work", "need a job", "hire me", "for hire", "resume review",
     "career advice", "interview tips", "should i", "is it worth", "what should",
     "how do i", "rant", "vent", "frustrated", "quit my job",
     "meme", "joke", "funny" >>

\* config.py URGENCY_PATTERNS.
URGENCY_PATTERNS ==
  << "asap", "immediately", "urgent", "start now", "right away",
     "start date", "start tomorrow", "this week", "today", "need someone",
     "quickly", "fast", "rush", "deadline", "time-sensitive",
     "limited time" >>

-----------------------------------------------------------------------------
(* Strings.                                                                 *)

\* The printable ASCII characters in code-point order: 32 (space) to 95, and
\* 97 to 126 (a TLA+ string cannot hold the backquote, code point 96).
ASCII_32_95 ==
  " !\"#$%&'()*+,-./0123456789:;<=>?@ABCDEFGHIJKLMNOPQRSTUVWXYZ[\\]^_"
ASCII_97_126 == "abcdefghijklmnopqrstuvwxyz{|}~"

CodePoints == (32..126) \ {96}

\* chr(n) for a printable code point n.
Chr(n) ==
  IF n <= 95 THEN SubSeq(ASCII_32_95, n - 31, n - 31)
  ELSE SubSeq(ASCII_97_126, n - 96, n - 96)

\* ord(c): the code point of a one-character string.
Ord == [c \in {Chr(n) : n \in CodePoints} |-> CHOOSE n \in CodePoints : Chr(n) = c]

\* str.lower() on one character: 'A'..'Z' (65..90) move up by 32.
LowerChar(c) ==
  IF c \in DOMAIN Ord /\ Ord[c] >= 65 /\ Ord[c] <= 90 THEN Chr(Ord[c] + 32) ELSE c

\* str.lower(): every character lowered, the string taken half by half.
RECURSIVE lower(_)
lower(s) ==
  IF Len(s) = 0 THEN ""
  ELSE IF Len(s) = 1 THEN LowerChar(s)
  ELSE LET half == Len(s) \div 2
       IN  lower(SubSeq(s, 1, half)) \o lower(SubSeq(s, half + 1, Len(s)))

\* Python's `p in text` for strings: p occurs as a contiguous substring.
Contains(p, text) ==
  \E i \in 1..(Len(text) - Len(p) + 1) : SubSeq(text, i, i + Len(p) - 1) = p

\* Python's a < b on strings: lexicographic by code point, a proper prefix first.
RECURSIVE StrLess(_, _)
StrLess(a, b) ==
  IF Len(b) = 0 THEN FALSE
  ELSE IF Len(a) = 0 THEN TRUE
  ELSE LET ca == Ord[SubSeq(a, 1, 1)]
           cb == Ord[SubSeq(b, 1, 1)]
       IN  IF ca # cb THEN ca < cb
           ELSE StrLess(SubSeq(a, 2, Len(a)), SubSeq(b, 2, Len(b)))

\* sorted(set(xs)) for a set of strings: the elements in increasing order.
RECURSIVE sorted(_)
sorted(S) ==
  IF S = {} THEN <<>>
  ELSE LET m == CHOOSE x \in S : \A y \in S \ {x} : StrLess(x, y)
       IN  <<m>> \o sorted(S \ {m})

\* CountIn counting every occurrence of every entry: sum(text.count(p) for p
\* in patterns).
CountOccurrencesIn(patterns, text) ==
  LET Occurrences(p) ==
        Cardinality({i \in 1..(Len(text) - Len(p) + 1) : SubSeq(text, i, i + Len(p) - 1) = p})
      RECURSIVE Sum(_)
      Sum(k) == IF k = 0 THEN 0 ELSE Occurrences(patterns[k]) + Sum(k - 1)
  IN  Sum(Len(patterns))

\* sum(1 for p in patterns if p in text): the number of list entries contained.
CountIn(patterns, text) ==
  Cardinality({i \in DOMAIN patterns : Contains(patterns[i], text)})

\* any(p in text for p in patterns).
AnyIn(patterns, text) == \E i \in DOMAIN patterns : Contains(patterns[i], text)

\* Python's None and a present value.
None == <<>>
Some(v) == <<v>>

\* round(n / d, 0) for integers n and d > 0, ties to the even neighbour.
RoundHalfEven(n, d) ==
  LET q == n \div d
      r == n % d
  IN  IF 2 * r < d THEN q
      ELSE IF 2 * r > d THEN q + 1
      ELSE IF q % 2 = 0 THEN q ELSE q + 1

-----------------------------------------------------------------------------
(* NLP enrichment (src/nlp/enrichment.py).                                  *)

\* scores of _match_patterns: the <<category, count>> pairs with count > 0,
\* in the order the dict was filled (catalog order).
RECURSIVE MatchScores(_, _)
MatchScores(text_lower, patterns) ==
  IF patterns = <<>> THEN <<>>
  ELSE LET category == Head(patterns)[1]
           count    == CountIn(Head(patterns)[2], text_lower)
           rest     == MatchScores(text_lower, Tail(patterns))
       IN  IF count > 0 THEN <<(<<category, count>>)>> \o rest ELSE rest

\* MaxKey taking the last category that has a hit, whatever its count.
LastKey(scores) == scores[Len(scores)][1]

\* MaxKey keeping the later key on a tie: the last key, in iteration order,
\* whose value no other key exceeds.
MaxKeyLastOnTie(scores) ==
  LET i == CHOOSE k \in DOMAIN scores :
             /\ \A j \in DOMAIN scores : scores[j][2] <= scores[k][2]
             /\ \A j \in (k + 1)..Len(scores) : scores[j][2] < scores[k][2]
  IN  scores[i][1]

\* max(scores, key=scores.get): the first key, in iteration order, whose value
\* no other key exceeds.
MaxKey(scores) ==
  LET i == CHOOSE k \in DOMAIN scores :
             /\ \A j \in DOMAIN scores : scores[j][2] <= scores[k][2]
             /\ \A j \in 1..(k - 1) : scores[j][2] < scores[k][2]
  IN  scores[i][1]

_match_patterns(text, patterns) ==
  LET scores == MatchScores(lower(text), patterns)
  IN  IF scores # <<>> THEN Some(MaxKey(scores)) ELSE None

\* The title-only signal lists of classify_is_job.
TITLE_HIRING_SIGNALS == <<"[hiring]", "hiring", "job opening", "position">>
TITLE_SEEKING_SIGNALS == <<"[for hire]", "hire me", "looking for work">>

\* The weight a title signal adds to its side's score.
TITLE_BOOST == 3

\* positive_score with the hiring signals looked up in title and body.
positive_score_boost_on_text(title, body) ==
  CountIn(JOB_POSITIVE_PATTERNS, lower(title \o " " \o body))
    + (IF AnyIn(TITLE_HIRING_SIGNALS, lower(title \o " " \o body)) THEN TITLE_BOOST ELSE 0)

positive_score(title, body) ==
  CountIn(JOB_POSITIVE_PATTERNS, lower(title \o " " \o body))
    + (IF AnyIn(TITLE_HIRING_SIGNALS, lower(title)) THEN TITLE_BOOST ELSE 0)

negative_score(title, body) ==
  CountIn(JOB_NEGATIVE_PATTERNS, lower(title \o " " \o body))
    + (IF AnyIn(TITLE_SEEKING_SIGNALS, lower(title)) THEN TITLE_BOOST ELSE 0)

\* classify_is_job with a tie counted as a job.
classify_is_job_on_tie(title, body) == positive_score(title, body) >= negative_score(title, body)

classify_is_job(title, body) == positive_score(title, body) > negative_score(title, body)

classify_job_type(title, body) == _match_patterns(title \o " " \o body, JOB_TYPE_PATTERNS)

classify_seniority(title, body) == _match_patterns(title \o " " \o body, SENIORITY_PATTERNS)

classify_domain(title, body) == _match_patterns(title \o " " \o body, DOMAIN_PATTERNS)

classify_work_mode(title, body) == _match_patterns(title \o " " \o body, WORK_MODE_PATTERNS)

\* extract_tech_stack returning found as it was filled, in catalog order,
\* without sorted().
extract_tech_stack_unsorted(title, body) ==
  LET text == lower(" " \o title \o " " \o body \o " ")
      Triggered(entry) == AnyIn(entry[2], text)
      found == SelectSeq(TECH_KEYWORDS, Triggered)
  IN  [i \in DOMAIN found |-> found[i][1]]

extract_tech_stack(title, body) ==
  LET text  == lower(" " \o title \o " " \o body \o " ")
      found == {TECH_KEYWORDS[i][1] : i \in {j \in DOMAIN TECH_KEYWORDS :
                                               AnyIn(TECH_KEYWORDS[j][2], text)}}
  IN  sorted(found)

\* The polarity lexicon standing for TextBlob's analyzer (an external library):
\* word -> polarity in units of 1/10000.
SENTIMENT_LEXICON ==
  << <<"amazing", 6000>>, <<"great", 8000>>, <<"excellent", 10000>>,
     <<"frustrated", -7000>>, <<"terrible", -10000>>, <<"worst", -10000>> >>

RECURSIVE SumPolarity(_, _)
SumPolarity(lexicon, text) ==
  IF lexicon = <<>> THEN 0
  ELSE (IF Contains(Head(lexicon)[1], text) THEN Head(lexicon)[2] ELSE 0)
         + SumPolarity(Tail(lexicon), text)

\* round(TextBlob(text).sentiment.polarity, 3), in thousandths: the mean polarity
\* of the lexicon words of the text, 0 when it has none.
compute_sentiment(title, body) ==
  LET text == lower(title \o ". " \o body)
      hits == Cardinality({i \in DOMAIN SENTIMENT_LEXICON :
                             Contains(SENTIMENT_LEXICON[i][1], text)})
  IN  IF hits = 0 THEN 0
      ELSE RoundHalfEven(SumPolarity(SENTIMENT_LEXICON, text), 10 * hits)

\* compute_urgency as the ratio of the phrases found to all urgency phrases:
\* round(matches / len(URGENCY_PATTERNS), 3), in thousandths.
compute_urgency_over_total(title, body) ==
  LET text    == lower(title \o " " \o body)
      matches == CountIn(URGENCY_PATTERNS, text)
  IN  RoundHalfEven(1000 * matches, Len(URGENCY_PATTERNS))

\* round(min(matches / max(len(URGENCY_PATTERNS) * 0.3, 1), 1.0), 3), in thousandths.
compute_urgency(title, body) ==
  LET text    == lower(title \o " " \o body)
      matches == CountIn(URGENCY_PATTERNS, text)
      n       == Len(URGENCY_PATTERNS)
      \* matches / max(0.3 * n, 1) as the fraction num / den
      num     == IF 3 * n >= 10 THEN 10 * matches ELSE matches
      den     == IF 3 * n >= 10 THEN 3 * n ELSE 1
  IN  IF num >= den THEN 1000 ELSE RoundHalfEven(1000 * num, den)

\* dict.get(key, default).
Get(d, key, default) == IF key \in DOMAIN d THEN d[key] ELSE default

\* The outcome of a call: a returned value or a raised exception.
Return(v) == [ok |-> TRUE, value |-> v]
Raise(e) == [ok |-> FALSE, error |-> e]

\* enrich_post with the technology extraction run whether or not the post is a job.
enrich_post_tech_ungated(post) ==
  LET title  == Get(post, "title", "")
      body   == Get(post, "body", "")
      is_job == classify_is_job(title, body)
  IN  IF "post_id" \notin DOMAIN post THEN Raise("KeyError: 'post_id'")
      ELSE Return(
        [post_id         |-> post["post_id"],
         is_job          |-> is_job,
         job_type        |-> IF is_job THEN classify_job_type(title, body) ELSE None,
         seniority       |-> IF is_job THEN classify_seniority(title, body) ELSE None,
         domain          |-> IF is_job THEN classify_domain(title, body) ELSE None,
         work_mode       |-> IF is_job THEN classify_work_mode(title, body) ELSE None,
         sentiment_score |-> Some(compute_sentiment(title, body)),
         urgency_score   |-> Some(IF is_job THEN compute_urgency(title, body) ELSE 0),
         tech_stack      |-> extract_tech_stack(title, body)])

\* enrich_post reading the key with post.get("post_id"): a record without
\* post_id gets a classification without identity.
enrich_post_lenient(post) ==
  LET title  == Get(post, "title", "")
      body   == Get(post, "body", "")
      is_job == classify_is_job(title, body)
  IN  Return(
        [post_id         |-> Get(post, "post_id", ""),
         is_job          |-> is_job,
         job_type        |-> IF is_job THEN classify_job_type(title, body) ELSE None,
         seniority       |-> IF is_job THEN classify_seniority(title, body) ELSE None,
         domain          |-> IF is_job THEN classify_domain(title, body) ELSE None,
         work_mode       |-> IF is_job THEN classify_work_mode(title, body) ELSE None,
         sentiment_score |-> Some(compute_sentiment(title, body)),
         urgency_score   |-> Some(IF is_job THEN compute_urgency(title, body) ELSE 0),
         tech_stack      |-> IF is_job THEN extract_tech_stack(title, body) ELSE <<>>])

\* enrich_post with the sentiment computed for jobs only, like the other
\* scores: a post that is not a job gets sentiment_score None.
enrich_post_sentiment_gated(post) ==
  LET title  == Get(post, "title", "")
      body   == Get(post, "body", "")
      is_job == classify_is_job(title, body)
  IN  IF "post_id" \notin DOMAIN post THEN Raise("KeyError: 'post_id'")
      ELSE Return(
        [post_id         |-> post["post_id"],
         is_job          |-> is_job,
         job_type        |-> IF is_job THEN classify_job_type(title, body) ELSE None,
         seniority       |-> IF is_job THEN classify_seniority(title, body) ELSE None,
         domain          |-> IF is_job THEN classify_domain(title, body) ELSE None,
         work_mode       |-> IF is_job THEN classify_work_mode(title, body) ELSE None,
         sentiment_score |-> IF is_job THEN Some(compute_sentiment(title, body)) ELSE None,
         urgency_score   |-> Some(IF is_job THEN compute_urgency(title, body) ELSE 0),
         tech_stack      |-> IF is_job THEN extract_tech_stack(title, body) ELSE <<>>])

enrich_post(post) ==
  LET title  == Get(post, "title", "")
      body   == Get(post, "body", "")
      is_job == classify_is_job(title, body)
  IN  IF "post_id" \notin DOMAIN post THEN Raise("KeyError: 'post_id'")
      ELSE Return(
        [post_id         |-> post["post_id"],
         is_job          |-> is_job,
         job_type        |-> IF is_job THEN classify_job_type(title, body) ELSE None,
         seniority       |-> IF is_job THEN classify_seniority(title, body) ELSE None,
         domain          |-> IF is_job THEN classify_domain(title, body) ELSE None,
         work_mode       |-> IF is_job THEN classify_work_mode(title, body) ELSE None,
         sentiment_score |-> Some(compute_sentiment(title, body)),
         urgency_score   |-> Some(IF is_job THEN compute_urgency(title, body) ELSE 0),
         tech_stack      |-> IF is_job THEN extract_tech_stack(title, body) ELSE <<>>])

-----------------------------------------------------------------------------
(* State.                                                                   *)

VARIABLES
  postgres,             \* _is_postgres(): the backend DATABASE_URL selects
  posts,                \* table posts: a bag of rows
  job_classifications,  \* table job_classifications: a bag of rows
  tech_stack,           \* table tech_stack: a bag of rows
  calls,                \* number of direct calls of the persistence API so far
  ret,                  \* the last direct call: its operation, arguments, outcome
  supplied,             \* history: the (post_id, technology) pairs of returned insert_tech_stack calls
  upserted,             \* history: post_id -> the number of returned insert_classification
                        \*          calls and the dicts of the last two
  nlp_in,               \* the post record handed to enrich_post
  nlp_out,              \* what enrich_post gave for it
  pc,                   \* driver -> where it is in run_pipeline
  runs,                 \* number of run_pipeline calls started so far
  run_no,               \* driver -> the number of its current run
  unprocessed,          \* driver -> the list get_unprocessed_posts() returned
  idx,                  \* driver -> position in the list of the post being handled
  result,               \* driver -> result of enrich_post, tech_stack popped
  tech,                 \* driver -> the popped tech_stack
  enriched_count,       \* driver -> enriched_count of enrich_and_store
  log,                  \* the logger.error records: run, post_id, error
  new_posts,            \* history: a post was inserted since the latest selection
  quiet,                \* history: driver -> its run is a repeated run that selected
                        \*          with no post inserted since the selection before
  skip_scrape,          \* driver -> the skip_scrape argument of its run_pipeline call
  existing_ids,         \* driver -> existing_ids of scrape_subreddit
  feed,                 \* driver -> the submissions subreddit.new(limit) yields to its call
  cursor,               \* driver -> position in the feed of the submission being handled
  scraped,              \* driver -> new_posts of scrape_subreddit
  scraped_count         \* driver -> scraped_count of run_pipeline

store == <<posts, job_classifications, tech_stack>>
api == <<calls, ret>>
nlp == <<nlp_in, nlp_out>>
driver == <<pc, runs, run_no, unprocessed, idx, result, tech, enriched_count, log,
            new_posts, quiet>>
scraper == <<skip_scrape, existing_ids, feed, cursor, scraped, scraped_count>>
vars == <<postgres, posts, job_classifications, tech_stack, calls, ret,
          supplied, upserted, nlp_in, nlp_out, pc, runs, run_no, unprocessed, idx,
          result, tech, enriched_count, log, new_posts, quiet, skip_scrape,
          existing_ids, feed, cursor, scraped, scraped_count>>

\* The value of a variable that holds nothing yet.
Nothing == [ok |-> FALSE, error |-> "not called"]

-----------------------------------------------------------------------------
(* Persistence (src/db.py).  Each call opens a connection, runs its         *)
(* statements in one transaction and commits, so a call is one atomic step; *)
(* when a statement raises, the connection is closed without a commit and   *)
(* the tables are as before the call.                                       *)

\* The rows of table whose post_id is id.
RowsOf(table, id) == {r \in BagToSet(table) : r.post_id = id}

\* The number of rows of table whose post_id is id.
CountOf(table, id) ==
  LET rows == RowsOf(table, id)
      RECURSIVE Sum(_)
      Sum(S) == IF S = {} THEN 0
                ELSE LET r == CHOOSE x \in S : TRUE
                     IN  CopiesIn(r, table) + Sum(S \ {r})
  IN  Sum(rows)

\* table with one more copy of row.
Insert(table, row) == table (+) SetToBag({row})

\* DELETE FROM table, the WHERE clause left out.
DeleteAll(table, id) == EmptyBag

\* DELETE FROM table WHERE post_id = id.
Delete(table, id) ==
  [r \in {x \in BagToSet(table) : x.post_id # id} |-> table[r]]

\* PRIMARY KEY of posts and UNIQUE key of job_classifications: the conflict
\* target (post_id) of the ON CONFLICT clauses.
KeyConflict(table, row) == RowsOf(table, row.post_id) # {}

\* UNIQUE (post_id, technology) of tech_stack.
PairConflict(table, row) == BagIn(row, table)

\* job_classifications.post_id REFERENCES posts(post_id).
ForeignKeyViolation(row) == RowsOf(posts, row.post_id) = {}

\* INSERT OR IGNORE (SQLite) / INSERT ... ON CONFLICT DO NOTHING (PostgreSQL)
\* into posts: the table after the statement and cursor.rowcount.
InsertOrIgnore(table, row) ==
  IF KeyConflict(table, row) THEN [table |-> table, rowcount |-> 0]
  ELSE [table |-> Insert(table, row), rowcount |-> 1]

InsertOnConflictDoNothing(table, row) ==
  IF KeyConflict(table, row) THEN [table |-> table, rowcount |-> 0]
  ELSE [table |-> Insert(table, row), rowcount |-> 1]

\* INSERT OR REPLACE (SQLite): the rows in conflict are deleted, the row inserted.
InsertOrReplace(table, row) == Insert(Delete(table, row.post_id), row)

\* The parameter tuple of insert_post's INSERT: the nine columns of a posts row.
PostRow(post_data) ==
  [post_id      |-> post_data["post_id"],
   title        |-> post_data["title"],
   body         |-> post_data["body"],
   author       |-> post_data["author"],
   subreddit    |-> post_data["subreddit"],
   score        |-> post_data["score"],
   num_comments |-> post_data["num_comments"],
   created_utc  |-> post_data["created_utc"],
   post_url     |-> post_data["post_url"]]

\* insert_post written with INSERT OR REPLACE: a stored post is overwritten and
\* the call reports a new row.
insert_post_replace(post_data) ==
  [posts |-> InsertOrReplace(posts, PostRow(post_data)), outcome |-> Return(TRUE)]

\* The effect of insert_post(post_data): the posts table after the commit and
\* the returned cursor.rowcount > 0.
insert_post(post_data) ==
  LET done == IF postgres THEN InsertOnConflictDoNothing(posts, PostRow(post_data))
              ELSE InsertOrIgnore(posts, PostRow(post_data))
  IN  [posts |-> done.table, outcome |-> Return(done.rowcount > 0)]

\* InsertOnConflictDoUpdate with job_type left out of the SET list: the row in
\* conflict keeps its stored job_type.
InsertOnConflictDoUpdateWithoutJobType(table, row) ==
  IF KeyConflict(table, row)
  THEN LET old    == CHOOSE x \in RowsOf(table, row.post_id) : TRUE
           merged == [row EXCEPT !.job_type = old.job_type]
       IN  [r \in {IF x.post_id = row.post_id THEN merged ELSE x : x \in BagToSet(table)} |->
              IF r = merged THEN CountOf(table, row.post_id) ELSE table[r]]
  ELSE Insert(table, row)

\* INSERT ... ON CONFLICT (post_id) DO UPDATE SET <every column> = EXCLUDED.<column>
\* (PostgreSQL): the row in conflict takes every value of the new row.
InsertOnConflictDoUpdate(table, row) ==
  IF KeyConflict(table, row)
  THEN [r \in {IF x.post_id = row.post_id THEN row ELSE x : x \in BagToSet(table)} |->
          IF r = row THEN CountOf(table, row.post_id) ELSE table[r]]
  ELSE Insert(table, row)

\* The parameter tuple of insert_classification's INSERT: the eight columns of
\* a job_classifications row.
ClassificationRow(classification) ==
  [post_id         |-> classification["post_id"],
   is_job          |-> classification["is_job"],
   job_type        |-> Get(classification, "job_type", None),
   seniority       |-> Get(classification, "seniority", None),
   domain          |-> Get(classification, "domain", None),
   work_mode       |-> Get(classification, "work_mode", None),
   sentiment_score |-> Get(classification, "sentiment_score", None),
   urgency_score   |-> Get(classification, "urgency_score", None)]

\* insert_classification as a merge: on a conflict a column the new record
\* leaves absent keeps its stored value (COALESCE(EXCLUDED.column, column)).
insert_classification_merge(classification) ==
  LET row  == ClassificationRow(classification)
      old  == CHOOSE r \in RowsOf(job_classifications, row.post_id) : TRUE
      Keep(column) == IF row[column] = None THEN old[column] ELSE row[column]
      merged == [post_id         |-> row.post_id,
                 is_job          |-> row.is_job,
                 job_type        |-> Keep("job_type"),
                 seniority       |-> Keep("seniority"),
                 domain          |-> Keep("domain"),
                 work_mode       |-> Keep("work_mode"),
                 sentiment_score |-> Keep("sentiment_score"),
                 urgency_score   |-> Keep("urgency_score")]
  IN  IF ForeignKeyViolation(row) THEN
        [job_classifications |-> job_classifications,
         outcome |-> Raise("IntegrityError: foreign key")]
      ELSE
        [job_classifications |->
           IF KeyConflict(job_classifications, row)
           THEN InsertOrReplace(job_classifications, merged)
           ELSE Insert(job_classifications, row),
         outcome |-> Return(None)]

\* insert_classification with the two score columns left out of the INSERT.
insert_classification_partial(classification) ==
  LET row == [ClassificationRow(classification) EXCEPT
                !.sentiment_score = None, !.urgency_score = None]
  IN  IF ForeignKeyViolation(row) THEN
        [job_classifications |-> job_classifications,
         outcome |-> Raise("IntegrityError: foreign key")]
      ELSE
        [job_classifications |-> InsertOrReplace(job_classifications, row),
         outcome |-> Return(None)]

\* The effect of insert_classification(classification): the job_classifications
\* table after the commit, or the exception raised.
insert_classification(classification) ==
  IF "post_id" \notin DOMAIN classification THEN
    [job_classifications |-> job_classifications, outcome |-> Raise("KeyError: 'post_id'")]
  ELSE IF "is_job" \notin DOMAIN classification THEN
    [job_classifications |-> job_classifications, outcome |-> Raise("KeyError: 'is_job'")]
  ELSE
    LET row == ClassificationRow(classification)
    IN  IF ForeignKeyViolation(row) THEN
          [job_classifications |-> job_classifications,
           outcome |-> Raise("IntegrityError: foreign key")]
        ELSE
          [job_classifications |->
             IF postgres THEN InsertOnConflictDoUpdate(job_classifications, row)
             ELSE InsertOrReplace(job_classifications, row),
           outcome |-> Return(None)]

\* The loop of insert_tech_stack: one INSERT OR IGNORE / ON CONFLICT DO NOTHING
\* per list entry, in list order, each seeing the rows the earlier ones inserted.
RECURSIVE InsertTags(_, _, _)
InsertTags(table, post_id, technologies) ==
  IF technologies = <<>> THEN table
  ELSE LET row == [post_id |-> post_id, technology |-> Head(technologies)]
       IN  InsertTags(IF PairConflict(table, row) THEN table ELSE Insert(table, row),
                      post_id, Tail(technologies))

\* insert_tech_stack with a plain INSERT into a table without the unique pair:
\* every list entry becomes a row.
RECURSIVE InsertTagsPlain(_, _, _)
InsertTagsPlain(table, post_id, technologies) ==
  IF technologies = <<>> THEN table
  ELSE InsertTagsPlain(Insert(table, [post_id |-> post_id, technology |-> Head(technologies)]),
                       post_id, Tail(technologies))

insert_tech_stack_plain(post_id, technologies) ==
  [tech_stack |-> InsertTagsPlain(tech_stack, post_id, technologies),
   outcome |-> Return(None)]

\* insert_tech_stack replacing the tags of the post: DELETE FROM tech_stack
\* WHERE post_id = ? before the inserts.
insert_tech_stack_replace(post_id, technologies) ==
  [tech_stack |-> InsertTags(Delete(tech_stack, post_id), post_id, technologies),
   outcome |-> Return(None)]

\* The effect of insert_tech_stack(post_id, technologies): the tech_stack table
\* after the commit.
insert_tech_stack(post_id, technologies) ==
  [tech_stack |-> InsertTags(tech_stack, post_id, technologies),
   outcome |-> Return(None)]

\* The query of get_unprocessed_posts without its WHERE clause: every post.
AllPostRows ==
  LET Project(p) == [post_id |-> p.post_id, title |-> p.title, body |-> p.body,
                     subreddit |-> p.subreddit]
  IN  [row \in {Project(p) : p \in BagToSet(posts)} |->
         CountOf(posts, row.post_id)]

\* The rows of SELECT p.post_id, p.title, p.body, p.subreddit FROM posts p
\* LEFT JOIN job_classifications jc ON p.post_id = jc.post_id WHERE jc.post_id
\* IS NULL: a bag, one row per copy of a post row without a match.
UnprocessedRows ==
  LET unmatched == {p \in BagToSet(posts) : RowsOf(job_classifications, p.post_id) = {}}
      Project(p) == [post_id |-> p.post_id, title |-> p.title, body |-> p.body,
                     subreddit |-> p.subreddit]
      Copies(row) ==
        LET RECURSIVE Sum(_)
            Sum(S) == IF S = {} THEN 0
                      ELSE LET p == CHOOSE x \in S : TRUE
                           IN  posts[p] + Sum(S \ {p})
        IN  Sum({p \in unmatched : Project(p) = row})
  IN  [row \in {Project(p) : p \in unmatched} |-> Copies(row)]

\* The sequences that list the elements of a bag, each as often as the bag holds it.
Listings(bag) ==
  LET n == BagCardinality(bag)
  IN  {s \in [1..n -> BagToSet(bag)] :
         \A e \in BagToSet(bag) : Cardinality({i \in 1..n : s[i] = e}) = bag[e]}

\* dict(row) of a plain tuple of column values: every element has to be a
\* key/value pair, which a string is only when it has exactly two characters
\* (the first becomes the key, the second the value, a later pair winning).
DictOfTuple(row) ==
  LET columns == <<row.post_id, row.title, row.body, row.subreddit>>
      Key(k)  == SubSeq(columns[k], 1, 1)
      Last(key) == CHOOSE k \in 1..4 :
                     Key(k) = key /\ \A j \in (k + 1)..4 : Key(j) # key
  IN  IF \A k \in 1..4 : Len(columns[k]) = 2
      THEN Return([key \in {Key(k) : k \in 1..4} |-> SubSeq(columns[Last(key)], 2, 2)])
      ELSE Raise("ValueError: dictionary update sequence element")

\* The outcomes get_unprocessed_posts() can have.  The query has no ORDER BY,
\* so the rows come in any order.  sqlite3.Row (row_factory) converts to the
\* dict of the selected columns; psycopg2's default cursor gives plain tuples.
get_unprocessed_posts ==
  {IF postgres
   THEN IF \A k \in DOMAIN rows : DictOfTuple(rows[k]).ok
        THEN Return([k \in DOMAIN rows |-> DictOfTuple(rows[k]).value])
        ELSE Raise("ValueError: dictionary update sequence element")
   ELSE Return(rows) : rows \in Listings(UnprocessedRows)}

-----------------------------------------------------------------------------
(* Inputs.                                                                  *)

\* Bound: the number of direct calls of the persistence API in one behaviour.
MaxCalls == 4

\* Bound: the number of run_pipeline calls in one behaviour.
MaxRuns == 2

\* The post ids of the model; direct calls use the first two.
PostIds == {"p1", "p2", "p3"}
ApiPostIds == {"p1", "p2"}

\* The processes that run the pipeline.
Drivers == {"d1", "d2"}

\* extract_post_data's record for a submission (src/scrape/reddit_scraper.py).
PostData(id, title, body, score) ==
  [post_id      |-> id,
   title        |-> title,
   body         |-> body,
   author       |-> "test_user",
   subreddit    |-> "forhire",
   score        |-> score,
   num_comments |-> score,
   created_utc  |-> "2025-01-01T00:00:00+00:00",
   post_url     |-> "https://www.reddit.com/r/forhire/comments/" \o id]

\* The post records handed to insert_post: each post_id as first scraped and as
\* scraped again after an edit and more votes.
PostInputs ==
  {PostData(id, "[Hiring] Senior Python Developer - Remote",
            "Apply today, great team! AWS a plus.", 42) : id \in ApiPostIds}
  \cup
  {PostData(id, "[Hiring] Senior Python Developer (filled)", "", 50) : id \in ApiPostIds}

\* The dicts handed to insert_classification: two full records of a job post
\* with different values, a full record of a non-job post, and one that
\* supplies only the two required keys.
ClassificationInputs ==
  UNION {
    { [post_id |-> id, is_job |-> TRUE, job_type |-> Some("Full-time"),
       seniority |-> Some("Senior"), domain |-> Some("Software"),
       work_mode |-> Some("Remote"), sentiment_score |-> Some(500),
       urgency_score |-> Some(300)],
      [post_id |-> id, is_job |-> TRUE, job_type |-> Some("Contract"),
       seniority |-> None, domain |-> Some("Data"),
       work_mode |-> Some("Hybrid"), sentiment_score |-> Some(-100),
       urgency_score |-> Some(1000)],
      [post_id |-> id, is_job |-> FALSE, job_type |-> None,
       seniority |-> None, domain |-> None,
       work_mode |-> None, sentiment_score |-> Some(0),
       urgency_score |-> Some(0)],
      [post_id |-> id, is_job |-> TRUE] } : id \in ApiPostIds }

\* The lists handed to insert_tech_stack.
TechListInputs == {<<"Python", "Python", "AWS">>, <<"Python">>, <<"AWS", "Docker">>}

\* Titles and bodies handed to enrich_post.
Titles ==
  {"",
   "[Hiring] Senior Python Developer - Remote",
   "[For Hire] Developer looking for work",
   "Should I learn React or Angular?",
   "Urgent: Data Engineer wanted ASAP",
   "Senior lead developer position",
   "Full-time Software Engineer",
   "[Hiring] Mid-level or Senior Engineer, Hybrid or Onsite"}

Bodies ==
  {"",
   "We are looking for a senior Python developer. Apply today!",
   "Career advice needed.",
   "Must know React, Node.js, and AWS. Great team, excellent benefits.",
   "Frustrated senior data analyst: need a job asap, remote contract, what should I do",
   "Hiring now, hiring fast: urgent deadline, start immediately, right away.",
   "Apply today: urgent role, urgent start date."}

EnrichInputs ==
  {[post_id |-> id, title |-> t, body |-> b] : id \in ApiPostIds, t \in Titles, b \in Bodies}
    \cup {[title |-> t, body |-> b] : t \in Titles, b \in Bodies}

-----------------------------------------------------------------------------
(* The enrichment function applied to one record (specification SpecEnrich). *)

InitCommon ==
  /\ posts = EmptyBag
  /\ job_classifications = EmptyBag
  /\ tech_stack = EmptyBag
  /\ calls = 0
  /\ ret = [op |-> "none", args |-> <<>>, outcome |-> Nothing]
  /\ supplied = {}
  /\ upserted = [id \in PostIds |-> [n |-> 0, last |-> None, prev |-> None]]
  /\ pc = [d \in Drivers |-> "idle"]
  /\ runs = 0
  /\ run_no = [d \in Drivers |-> 0]
  /\ unprocessed = [d \in Drivers |-> <<>>]
  /\ idx = [d \in Drivers |-> 0]
  /\ result = [d \in Drivers |-> Nothing]
  /\ tech = [d \in Drivers |-> <<>>]
  /\ enriched_count = [d \in Drivers |-> 0]
  /\ log = {}
  /\ new_posts = FALSE
  /\ quiet = [d \in Drivers |-> FALSE]
  /\ skip_scrape = [d \in Drivers |-> TRUE]
  /\ existing_ids = [d \in Drivers |-> {}]
  /\ feed = [d \in Drivers |-> <<>>]
  /\ cursor = [d \in Drivers |-> 0]
  /\ scraped = [d \in Drivers |-> <<>>]
  /\ scraped_count = [d \in Drivers |-> 0]

InitEnrich ==
  /\ InitCommon
  /\ postgres = FALSE
  /\ nlp_in \in EnrichInputs
  /\ nlp_out = Nothing

\* result = enrich_post(post)
CallEnrichPost ==
  /\ nlp_out = Nothing
  /\ nlp_out' = enrich_post(nlp_in)
  /\ UNCHANGED <<postgres, scraper, store, api, supplied, upserted, nlp_in, driver>>

NextEnrich == CallEnrichPost

SpecEnrich == InitEnrich /\ [][NextEnrich]_vars

-----------------------------------------------------------------------------
(* Direct calls of the persistence API (specification SpecStore).           *)

InitStore ==
  /\ InitCommon
  /\ postgres \in BOOLEAN
  /\ nlp_in = Nothing
  /\ nlp_out = Nothing

\* The histories after a returned insert_classification / insert_tech_stack call.
Upserted(classification) ==
  [upserted EXCEPT ![classification["post_id"]] =
     [n |-> @.n + 1, last |-> Some(classification), prev |-> @.last]]

Supplied(post_id, technologies) ==
  supplied \cup {<<post_id, technologies[k]>> : k \in DOMAIN technologies}

\* A call whose connection or statement fails (get_connection raising
\* ConnectionError, a locked or unreachable database): nothing is committed.
Failed == Raise("OperationalError")

CallInsertPost(post_data, fails) ==
  /\ calls < MaxCalls
  /\ calls' = calls + 1
  /\ LET done == insert_post(post_data)
     IN  IF fails
         THEN /\ ret' = [op |-> "insert_post", args |-> post_data, outcome |-> Failed]
              /\ UNCHANGED posts
         ELSE /\ ret' = [op |-> "insert_post", args |-> post_data, outcome |-> done.outcome]
              /\ posts' = done.posts
  /\ UNCHANGED <<postgres, scraper, job_classifications, tech_stack, supplied, upserted,
                 nlp, driver>>

CallInsertClassification(classification, fails) ==
  /\ calls < MaxCalls
  /\ calls' = calls + 1
  /\ LET done == insert_classification(classification)
     IN  IF fails
         THEN /\ ret' = [op |-> "insert_classification", args |-> classification,
                         outcome |-> Failed]
              /\ UNCHANGED <<job_classifications, upserted>>
         ELSE /\ ret' = [op |-> "insert_classification", args |-> classification,
                         outcome |-> done.outcome]
              /\ job_classifications' = done.job_classifications
              /\ upserted' = IF done.outcome.ok
                             THEN Upserted(classification)
                             ELSE upserted
  /\ UNCHANGED <<postgres, scraper, posts, tech_stack, supplied, nlp, driver>>

CallInsertTechStack(post_id, technologies, fails) ==
  /\ calls < MaxCalls
  /\ calls' = calls + 1
  /\ LET done == insert_tech_stack(post_id, technologies)
         args == [post_id |-> post_id, technologies |-> technologies]
     IN  IF fails
         THEN /\ ret' = [op |-> "insert_tech_stack", args |-> args, outcome |-> Failed]
              /\ UNCHANGED <<tech_stack, supplied>>
         ELSE /\ ret' = [op |-> "insert_tech_stack", args |-> args, outcome |-> done.outcome]
              /\ tech_stack' = done.tech_stack
              /\ supplied' = Supplied(post_id, technologies)
  /\ UNCHANGED <<postgres, scraper, posts, job_classifications, upserted, nlp, driver>>

CallGetUnprocessedPosts ==
  /\ calls < MaxCalls
  /\ calls' = calls + 1
  /\ \E outcome \in get_unprocessed_posts \cup {Failed} :
       ret' = [op |-> "get_unprocessed_posts", args |-> <<>>, outcome |-> outcome]
  /\ UNCHANGED <<postgres, scraper, store, supplied, upserted, nlp, driver>>

NextStore ==
  \/ \E post_data \in PostInputs, fails \in BOOLEAN : CallInsertPost(post_data, fails)
  \/ \E classification \in ClassificationInputs, fails \in BOOLEAN :
       CallInsertClassification(classification, fails)
  \/ \E post_id \in ApiPostIds, technologies \in TechListInputs, fails \in BOOLEAN :
       CallInsertTechStack(post_id, technologies, fails)
  \/ CallGetUnprocessedPosts

SpecStore == InitStore /\ [][NextStore]_vars

-----------------------------------------------------------------------------
(* The pipeline driver (src/pipeline/run.py; specification Spec).  Posts    *)
(* arrive through insert_post calls of the acquisition component; a driver  *)
(* runs run_pipeline(skip_scrape=True).  Every database call is its own     *)
(* transaction, so other processes can act between two calls of a driver.   *)

\* The post record the forum serves for each post id: a job post that names
\* technologies, a post that is no job but holds taxonomy, technology and
\* urgency phrases, and a job post that names no technology.
Submission(id) ==
  CASE id = "p1" -> PostData(id, "[Hiring] Senior Python Developer - Remote",
                             "Apply today, great team! AWS a plus.", 42)
    [] id = "p2" -> PostData(id, "Should I learn React or Angular?",
                             "Senior remote contract? Career advice needed asap.", 7)
    [] id = "p3" -> PostData(id, "Senior lead developer position", "", 3)

\* The columns get_unprocessed_posts selects of a post record.
Selected(post_data) ==
  [post_id |-> post_data["post_id"], title |-> post_data["title"],
   body |-> post_data["body"], subreddit |-> post_data["subreddit"]]

\* enrich_post on the records the store can hand to it, computed once.
Enriched == [post \in {Selected(Submission(id)) : id \in PostIds} |-> enrich_post(post)]

Init ==
  /\ InitCommon
  /\ postgres \in BOOLEAN
  /\ nlp_in = Nothing
  /\ nlp_out = Nothing

\* The acquisition component stores a scraped post.
Arrive(id, fails) ==
  /\ LET done == insert_post(Submission(id))
     IN  IF fails THEN UNCHANGED <<posts, new_posts>>
         ELSE /\ posts' = done.posts
              /\ new_posts' = (new_posts \/ done.outcome.value)
  /\ UNCHANGED <<postgres, scraper, job_classifications, tech_stack, api, supplied, upserted, nlp,
                 pc, runs, run_no, unprocessed, idx, result, tech, enriched_count, log,
                 quiet>>

\* The locals of a new run_pipeline(skip_scrape) call of driver d:
\* scraped_count = 0 and nothing scraped yet.
NewRun(d, skip) ==
  /\ skip_scrape' = [skip_scrape EXCEPT ![d] = skip]
  /\ existing_ids' = [existing_ids EXCEPT ![d] = {}]
  /\ feed' = [feed EXCEPT ![d] = <<>>]
  /\ cursor' = [cursor EXCEPT ![d] = 0]
  /\ scraped' = [scraped EXCEPT ![d] = <<>>]
  /\ scraped_count' = [scraped_count EXCEPT ![d] = 0]

\* RunPipeline without the reset of scraped_count: the summary of a run that
\* skips the scrape reports the count of the process's previous run.
RunPipelineKeepingCount(d) ==
  /\ pc[d] \in {"idle", "done", "crashed"}
  /\ runs < MaxRuns
  /\ runs' = runs + 1
  /\ run_no' = [run_no EXCEPT ![d] = runs + 1]
  /\ pc' = [pc EXCEPT ![d] = "select"]
  /\ unprocessed' = [unprocessed EXCEPT ![d] = <<>>]
  /\ idx' = [idx EXCEPT ![d] = 0]
  /\ result' = [result EXCEPT ![d] = Nothing]
  /\ tech' = [tech EXCEPT ![d] = <<>>]
  /\ enriched_count' = [enriched_count EXCEPT ![d] = 0]
  /\ quiet' = [quiet EXCEPT ![d] = FALSE]
  /\ skip_scrape' = [skip_scrape EXCEPT ![d] = TRUE]
  /\ UNCHANGED <<existing_ids, feed, cursor, scraped, scraped_count>>
  /\ UNCHANGED <<postgres, store, api, supplied, upserted, nlp, log, new_posts>>

\* run_pipeline(skip_scrape=True) up to step 2: init_db() leaves stored rows
\* alone, scraped_count = 0.
RunPipeline(d) ==
  /\ pc[d] \in {"idle", "done", "crashed"}
  /\ runs < MaxRuns
  /\ runs' = runs + 1
  /\ run_no' = [run_no EXCEPT ![d] = runs + 1]
  /\ pc' = [pc EXCEPT ![d] = "select"]
  /\ unprocessed' = [unprocessed EXCEPT ![d] = <<>>]
  /\ idx' = [idx EXCEPT ![d] = 0]
  /\ result' = [result EXCEPT ![d] = Nothing]
  /\ tech' = [tech EXCEPT ![d] = <<>>]
  /\ enriched_count' = [enriched_count EXCEPT ![d] = 0]
  /\ quiet' = [quiet EXCEPT ![d] = FALSE]
  /\ NewRun(d, TRUE)
  /\ UNCHANGED <<postgres, store, api, supplied, upserted, nlp, log, new_posts>>

\* unprocessed = get_unprocessed_posts(); an exception ends run_pipeline.
SelectUnprocessed(d) ==
  /\ pc[d] = "select"
  /\ \E outcome \in get_unprocessed_posts \cup {Failed} :
       IF outcome.ok
       THEN /\ unprocessed' = [unprocessed EXCEPT ![d] = outcome.value]
            /\ idx' = [idx EXCEPT ![d] = 1]
            /\ pc' = [pc EXCEPT ![d] = "enrich"]
            /\ quiet' = [quiet EXCEPT ![d] = (run_no[d] > 1 /\ ~new_posts)]
            /\ new_posts' = FALSE
       ELSE /\ pc' = [pc EXCEPT ![d] = "crashed"]
            /\ UNCHANGED <<unprocessed, idx, quiet, new_posts>>
  /\ UNCHANGED <<postgres, scraper, store, api, supplied, upserted, nlp, runs, run_no, result,
                 tech, enriched_count, log>>

\* The post the loop of enrich_and_store is at.
Post(d) == unprocessed[d][idx[d]]

\* LogError leaving the loop: the first failure ends the batch.
LogErrorAndBreak(d, e) ==
  /\ log' = log \cup {[run |-> run_no[d], post_id |-> Post(d)["post_id"], error |-> e]}
  /\ idx' = [idx EXCEPT ![d] = Len(unprocessed[d]) + 1]
  /\ pc' = [pc EXCEPT ![d] = "enrich"]

\* except Exception as e: logger.error(...); the loop goes on with the next post.
LogError(d, e) ==
  /\ log' = log \cup {[run |-> run_no[d], post_id |-> Post(d)["post_id"], error |-> e]}
  /\ idx' = [idx EXCEPT ![d] = @ + 1]
  /\ pc' = [pc EXCEPT ![d] = "enrich"]

\* CountEnriched without the increment.
CountEnrichedNever(d) ==
  /\ UNCHANGED enriched_count
  /\ idx' = [idx EXCEPT ![d] = @ + 1]
  /\ pc' = [pc EXCEPT ![d] = "enrich"]

\* enriched_count += 1; the loop goes on with the next post.
CountEnriched(d) ==
  /\ enriched_count' = [enriched_count EXCEPT ![d] = @ + 1]
  /\ idx' = [idx EXCEPT ![d] = @ + 1]
  /\ pc' = [pc EXCEPT ![d] = "enrich"]

\* A dict without one key: what dict.pop(key) leaves.
Without(dict, key) == [k \in DOMAIN dict \ {key} |-> dict[k]]

\* EnrichPost storing a stub classification (is_job false, every other column
\* empty) for a post whose enrichment failed.
EnrichPostStubOnFailure(d, backend_fails) ==
  /\ pc[d] = "enrich"
  /\ idx[d] <= Len(unprocessed[d])
  /\ LET outcome == IF backend_fails THEN Raise("TextBlob error") ELSE Enriched[Post(d)]
         stub    == [post_id |-> Post(d)["post_id"], is_job |-> FALSE]
     IN  IF outcome.ok
         THEN /\ result' = [result EXCEPT ![d] = Without(outcome.value, "tech_stack")]
              /\ tech' = [tech EXCEPT ![d] = Get(outcome.value, "tech_stack", <<>>)]
              /\ pc' = [pc EXCEPT ![d] = "classify"]
              /\ UNCHANGED <<idx, log, job_classifications>>
         ELSE /\ LogError(d, outcome.error)
              /\ job_classifications' = insert_classification(stub).job_classifications
              /\ UNCHANGED <<result, tech>>
  /\ UNCHANGED <<postgres, scraper, posts, tech_stack, api, supplied, upserted, nlp, runs, run_no,
                 unprocessed, enriched_count, new_posts, quiet>>

\* result = enrich_post(post); tech_stack = result.pop("tech_stack", []).
\* The sentiment backend (TextBlob) may raise.
EnrichPost(d, backend_fails) ==
  /\ pc[d] = "enrich"
  /\ idx[d] <= Len(unprocessed[d])
  /\ LET outcome == IF backend_fails THEN Raise("TextBlob error") ELSE IF Post(d) \in DOMAIN Enriched THEN Enriched[Post(d)]
                        ELSE enrich_post(Post(d))
     IN  IF outcome.ok
         THEN /\ result' = [result EXCEPT ![d] = Without(outcome.value, "tech_stack")]
              /\ tech' = [tech EXCEPT ![d] = Get(outcome.value, "tech_stack", <<>>)]
              /\ pc' = [pc EXCEPT ![d] = "classify"]
              /\ UNCHANGED <<idx, log>>
         ELSE /\ LogError(d, outcome.error)
              /\ UNCHANGED <<result, tech>>
  /\ UNCHANGED <<postgres, scraper, store, api, supplied, upserted, nlp, runs, run_no, unprocessed,
                 enriched_count, new_posts, quiet>>

\* insert_classification(result), then `if tech_stack:`.
InsertClassification(d, fails) ==
  /\ pc[d] = "classify"
  /\ LET done    == insert_classification(result[d])
         outcome == IF fails THEN Failed ELSE done.outcome
     IN  IF outcome.ok
         THEN /\ job_classifications' = done.job_classifications
              /\ upserted' = Upserted(result[d])
              /\ IF tech[d] # <<>>
                 THEN /\ pc' = [pc EXCEPT ![d] = "tags"]
                      /\ UNCHANGED <<idx, enriched_count>>
                 ELSE CountEnriched(d)
              /\ UNCHANGED log
         ELSE /\ LogError(d, outcome.error)
              /\ UNCHANGED <<job_classifications, upserted, enriched_count>>
  /\ UNCHANGED <<postgres, scraper, posts, tech_stack, api, supplied, nlp, runs, run_no,
                 unprocessed, result, tech, new_posts, quiet>>

\* insert_tech_stack(result["post_id"], tech_stack).
InsertTechStack(d, fails) ==
  /\ pc[d] = "tags"
  /\ LET done    == insert_tech_stack(result[d]["post_id"], tech[d])
         outcome == IF fails THEN Failed ELSE done.outcome
     IN  IF outcome.ok
         THEN /\ tech_stack' = done.tech_stack
              /\ supplied' = Supplied(result[d]["post_id"], tech[d])
              /\ CountEnriched(d)
              /\ UNCHANGED log
         ELSE /\ LogError(d, outcome.error)
              /\ UNCHANGED <<tech_stack, supplied, enriched_count>>
  /\ UNCHANGED <<postgres, scraper, posts, job_classifications, api, upserted, nlp, runs, run_no,
                 unprocessed, result, tech, new_posts, quiet>>

\* The loop is over: enrich_and_store returns enriched_count and run_pipeline
\* returns its summary.
ReturnSummary(d) ==
  /\ pc[d] = "enrich"
  /\ idx[d] > Len(unprocessed[d])
  /\ pc' = [pc EXCEPT ![d] = "done"]
  /\ UNCHANGED <<postgres, scraper, store, api, supplied, upserted, nlp, runs, run_no, unprocessed,
                 idx, result, tech, enriched_count, log, new_posts, quiet>>

\* One step of driver d.
DriverStep(d) ==
  \/ RunPipeline(d)
  \/ SelectUnprocessed(d)
  \/ \E backend_fails \in BOOLEAN : EnrichPost(d, backend_fails)
  \/ \E fails \in BOOLEAN : InsertClassification(d, fails)
  \/ \E fails \in BOOLEAN : InsertTechStack(d, fails)
  \/ ReturnSummary(d)

Next ==
  \/ \E id \in PostIds, fails \in BOOLEAN : Arrive(id, fails)
  \/ DriverStep("d1")

Spec == Init /\ [][Next]_vars

-----------------------------------------------------------------------------
(* Properties of enrich_post (checked under SpecEnrich).                    *)

\* C1: for every post on which the Job Gate (classify_is_job) returns false,
\* the record enrich_post returns has job_type, seniority, domain and
\* work_mode None, urgency_score 0.0 and an empty tech_stack, whatever
\* taxonomy, technology or urgency phrases the text holds.
C1_NonJobRecordIsBlank ==
  (nlp_out.ok /\ ~classify_is_job(nlp_in["title"], nlp_in["body"])) =>
    /\ nlp_out.value["is_job"] = FALSE
    /\ nlp_out.value["job_type"] = None
    /\ nlp_out.value["seniority"] = None
    /\ nlp_out.value["domain"] = None
    /\ nlp_out.value["work_mode"] = None
    /\ nlp_out.value["urgency_score"] = Some(0)
    /\ nlp_out.value["tech_stack"] = <<>>

\* A post the Job Gate rejects although its text holds a phrase of every
\* taxonomy, a technology and an urgency phrase, after enrich_post returned.
C1_Witness ==
  /\ nlp_out.ok
  /\ ~classify_is_job(nlp_in["title"], nlp_in["body"])
  /\ classify_job_type(nlp_in["title"], nlp_in["body"]) # None
  /\ classify_seniority(nlp_in["title"], nlp_in["body"]) # None
  /\ classify_domain(nlp_in["title"], nlp_in["body"]) # None
  /\ classify_work_mode(nlp_in["title"], nlp_in["body"]) # None
  /\ extract_tech_stack(nlp_in["title"], nlp_in["body"]) # <<>>
  /\ compute_urgency(nlp_in["title"], nlp_in["body"]) > 0

-----------------------------------------------------------------------------
(* Properties of the persistence operations (checked under SpecStore).      *)

\* This step is a direct call of op that returned (raised nothing).
Returned(op) == calls' = calls + 1 /\ ret'.op = op /\ ret'.outcome.ok

\* C2: insert_post returns true exactly when the post_id was not yet stored
\* and false when it was (so two calls with one post_id return true, then
\* false); the posts table never holds two rows of one post_id, and a call
\* that returns false changes nothing.
C2_InsertPostOnce ==
  /\ [](\A id \in PostIds : CountOf(posts, id) <= 1)
  /\ [][Returned("insert_post") =>
          LET id == ret'.args["post_id"]
          IN  /\ ret'.outcome.value = (RowsOf(posts, id) = {})
              /\ CountOf(posts', id) = 1
              /\ ~ret'.outcome.value => store' = store]_vars

\* A second insert_post of a stored post_id, with other field values, has
\* returned false and the stored row is the first one.
C2_Witness ==
  /\ ret.op = "insert_post"
  /\ ret.outcome = Return(FALSE)
  /\ CountOf(posts, ret.args["post_id"]) = 1
  /\ \E r \in RowsOf(posts, ret.args["post_id"]) : r.title # ret.args["title"]

\* The row C3 expects for a classification dict: every column holds the dict's
\* value, None where the dict supplies none.
C3_RowOf(c) ==
  LET Value(key) == IF key \in DOMAIN c THEN c[key] ELSE None
  IN  [post_id |-> c["post_id"], is_job |-> c["is_job"],
       job_type |-> Value("job_type"), seniority |-> Value("seniority"),
       domain |-> Value("domain"), work_mode |-> Value("work_mode"),
       sentiment_score |-> Value("sentiment_score"),
       urgency_score |-> Value("urgency_score")]

\* C3: after any sequence of insert_classification calls there is at most one
\* classification row per post_id, and it holds exactly the values of the last
\* returned call for that post_id: every field replaced, a field the last call
\* does not supply absent, nothing of an earlier call merged in.
C3_LastUpsertWins ==
  \A id \in PostIds :
    /\ CountOf(job_classifications, id) <= 1
    /\ upserted[id].n = 0 => RowsOf(job_classifications, id) = {}
    /\ upserted[id].n > 0 =>
         RowsOf(job_classifications, id) = {C3_RowOf(upserted[id].last[1])}

\* Two calls for one post_id have returned: the earlier supplied every field,
\* the last only the required ones, and the row holds none of the earlier values.
C3_Witness ==
  \E id \in PostIds :
    /\ upserted[id].n >= 2
    /\ upserted[id].prev # None
    /\ Get(upserted[id].prev[1], "job_type", None) = Some("Full-time")
    /\ upserted[id].last = Some([post_id |-> id, is_job |-> TRUE])
    /\ \E r \in RowsOf(job_classifications, id) :
         r.job_type = None /\ r.sentiment_score = None

\* C4: after any sequence of insert_tech_stack calls each (post_id, technology)
\* pair is stored at most once, whether the duplicate comes from one call's
\* list or from a later call, and the stored pairs are the union of all the
\* technologies ever supplied.
C4_TagsAreTheUnionOnce ==
  /\ \A row \in BagToSet(tech_stack) : CopiesIn(row, tech_stack) = 1
  /\ {<<row.post_id, row.technology>> : row \in BagToSet(tech_stack)} = supplied

\* insert_tech_stack(p, ["Python"]) has returned after a call whose list named
\* Python twice and AWS: exactly the rows Python and AWS are stored for p.
C4_Witness ==
  /\ ret.op = "insert_tech_stack"
  /\ ret.outcome.ok
  /\ ret.args["technologies"] = <<"Python">>
  /\ {<<"Python", "Python", "AWS">>[k] : k \in 1..3} =
       {row.technology : row \in RowsOf(tech_stack, ret.args["post_id"])}
  /\ CountOf(tech_stack, ret.args["post_id"]) = 2

\* C5: get_unprocessed_posts returns exactly the stored posts that have no
\* classification row: each of them once, and no post that has a
\* classification, job or not.  (A call that database unavailability fails
\* is not a return.)
C5_UnprocessedAreTheUnclassified ==
  (ret.op = "get_unprocessed_posts" /\ ret.outcome # Failed) =>
    /\ ret.outcome.ok
    /\ LET rows == ret.outcome.value
       IN  /\ {rows[k]["post_id"] : k \in DOMAIN rows} =
                {p.post_id : p \in {q \in BagToSet(posts) :
                                      RowsOf(job_classifications, q.post_id) = {}}}
           /\ \A j, k \in DOMAIN rows : rows[j]["post_id"] = rows[k]["post_id"] => j = k
           /\ \A k \in DOMAIN rows : \E p \in BagToSet(posts) : rows[k] = Selected(p)

-----------------------------------------------------------------------------
(* Properties of the enrichment driver (checked under Spec).                *)

\* Driver d takes this step.
Moved(d) == pc'[d] # pc[d] \/ idx'[d] # idx[d]

\* This step of driver d is the return of get_unprocessed_posts.
Selecting(d) == pc[d] = "select" /\ pc'[d] = "enrich"

\* The post_ids of a list of posts.
Ids(batch) == {batch[k]["post_id"] : k \in DOMAIN batch}

\* The complete enrich_post result of the stored post id.
EnrichmentOf(id) == Enriched[Selected(Submission(id))].value

\* The classification row that carries every field of a complete enrich_post
\* result.
CompleteRow(enrichment) ==
  [post_id         |-> enrichment["post_id"],
   is_job          |-> enrichment["is_job"],
   job_type        |-> enrichment["job_type"],
   seniority       |-> enrichment["seniority"],
   domain          |-> enrichment["domain"],
   work_mode       |-> enrichment["work_mode"],
   sentiment_score |-> enrichment["sentiment_score"],
   urgency_score   |-> enrichment["urgency_score"]]

\* The technology tags of an enrichment as (post_id, technology) pairs.
TagsOf(id) ==
  {<<id, EnrichmentOf(id)["tech_stack"][k]>> : k \in DOMAIN EnrichmentOf(id)["tech_stack"]}

StoredTags == {<<row.post_id, row.technology>> : row \in BagToSet(tech_stack)}

\* The classification of post id and all its tags are stored.
Persisted(id) ==
  /\ RowsOf(job_classifications, id) = {CompleteRow(EnrichmentOf(id))}
  /\ TagsOf(id) \subseteq StoredTags

\* The error of post id logged by run number run.
LoggedIn(run, id) == \E entry \in log : entry.run = run /\ entry.post_id = id

\* C6 as stated: a post that has a classification row is never selected by a
\* later run, and a run started with no new post since the previous run's
\* selection enriches zero posts and changes no table.
C6_QuietRunChangesNothing ==
  [][\A d \in Drivers :
       /\ Selecting(d) =>
            \A id \in Ids(unprocessed'[d]) : RowsOf(job_classifications, id) = {}
       /\ (Moved(d) /\ quiet[d] /\ pc[d] \in {"enrich", "classify", "tags"}) =>
            (store' = store /\ enriched_count'[d] = 0)]_vars

\* C6 (amended): a post that has a classification row is never selected or
\* re-enriched by a later run, and a run started when every stored post has a
\* classification row selects nothing, enriches zero posts and leaves posts,
\* classifications and technology tags unchanged.
C6_ClassifiedNeverReprocessed ==
  [][\A d \in Drivers :
       /\ Selecting(d) =>
            /\ \A id \in Ids(unprocessed'[d]) : RowsOf(job_classifications, id) = {}
            /\ (\A p \in BagToSet(posts) : RowsOf(job_classifications, p.post_id) # {})
                 => unprocessed'[d] = <<>>
       /\ (pc[d] = "enrich" /\ pc'[d] = "classify") =>
            RowsOf(job_classifications, Post(d)["post_id"]) = {}
       /\ (Moved(d) /\ pc[d] \in {"enrich", "classify", "tags"} /\ unprocessed[d] = <<>>) =>
            (store' = store /\ enriched_count'[d] = 0)]_vars

\* A second run over a store whose posts are all classified has ended: it
\* selected nothing and enriched nothing.
C6_Witness ==
  \E d \in Drivers :
    /\ run_no[d] = 2
    /\ pc[d] = "done"
    /\ unprocessed[d] = <<>>
    /\ enriched_count[d] = 0
    /\ BagToSet(posts) # {}
    /\ \A p \in BagToSet(posts) : RowsOf(job_classifications, p.post_id) # {}

\* C7: a failure on one post of a batch does not end the batch: when
\* enrich_and_store returns, every post of the batch was handled, each one
\* either logged as failed in this run or persisted with its classification and
\* tags; and no step removes a stored post, classification row or tag.
C7_FailureDoesNotAbortBatch ==
  /\ [](\A d \in Drivers :
          pc[d] = "done" =>
            \A id \in Ids(unprocessed[d]) : LoggedIn(run_no[d], id) \/ Persisted(id))
  /\ [][/\ BagToSet(posts) \subseteq BagToSet(posts')
        /\ BagToSet(job_classifications) \subseteq BagToSet(job_classifications')
        /\ BagToSet(tech_stack) \subseteq BagToSet(tech_stack')]_vars

\* A batch has ended in which a post failed and a later post of the same batch
\* was enriched and persisted, an earlier persisted post still being stored.
C7_Witness ==
  \E d \in Drivers :
    /\ pc[d] = "done"
    /\ \E i, j, k \in DOMAIN unprocessed[d] :
         /\ i < j /\ j < k
         /\ Persisted(unprocessed[d][i]["post_id"])
         /\ ~LoggedIn(run_no[d], unprocessed[d][i]["post_id"])
         /\ LoggedIn(run_no[d], unprocessed[d][j]["post_id"])
         /\ RowsOf(job_classifications, unprocessed[d][j]["post_id"]) = {}
         /\ Persisted(unprocessed[d][k]["post_id"])
         /\ ~LoggedIn(run_no[d], unprocessed[d][k]["post_id"])

\* C8: when enrich_post fails for a post, the step writes nothing, the post has
\* no classification row while the batch goes on, the next return of
\* get_unprocessed_posts holds every stored post that still has no row, and
\* the run that selected it handles it again before it ends.
C8_FailedPostIsRetried ==
  /\ [][\A d \in Drivers :
          /\ (pc[d] = "enrich" /\ log' # log) =>
               /\ store' = store
               /\ RowsOf(job_classifications', Post(d)["post_id"]) = {}
          /\ Selecting(d) =>
               \A p \in BagToSet(posts) :
                 RowsOf(job_classifications, p.post_id) = {} =>
                   p.post_id \in Ids(unprocessed'[d])]_vars
  /\ [](\A d \in Drivers :
          \A k \in DOMAIN unprocessed[d] :
            LET id == unprocessed[d][k]["post_id"]
            IN  /\ (k < idx[d] /\ pc[d] \in {"enrich", "done"}
                      /\ [run |-> run_no[d], post_id |-> id, error |-> "TextBlob error"] \in log)
                     => RowsOf(job_classifications, id) = {}
                /\ (pc[d] = "done" /\ LoggedIn(1, id) /\ run_no[d] = 2)
                     => (LoggedIn(2, id) \/ Persisted(id)))

\* The second run has enriched and persisted a post whose enrichment failed in
\* the first run.
C8_Witness ==
  \E d \in Drivers :
    /\ run_no[d] = 2
    /\ pc[d] = "done"
    /\ \E id \in Ids(unprocessed[d]) :
         /\ [run |-> 1, post_id |-> id, error |-> "TextBlob error"] \in log
         /\ ~LoggedIn(2, id)
         /\ Persisted(id)

\* C9: every classification row in the store, at every step, belongs to a
\* stored post and carries all fields of the complete enrich_post result of
\* that post; a post whose enrichment never reached insert_classification has
\* no row.
C9_NoPartialClassification ==
  /\ \A row \in BagToSet(job_classifications) :
       /\ RowsOf(posts, row.post_id) # {}
       /\ row = CompleteRow(EnrichmentOf(row.post_id))
       /\ row.sentiment_score # None
       /\ row.urgency_score # None
  /\ \A id \in PostIds :
       upserted[id].n = 0 => RowsOf(job_classifications, id) = {}

\* The row of a job post is visible, complete, between insert_classification
\* and insert_tech_stack, while an earlier post of the batch whose enrichment
\* failed has no row.
C9_Witness ==
  \E d \in Drivers :
    /\ pc[d] = "tags"
    /\ RowsOf(job_classifications, Post(d)["post_id"]) =
         {CompleteRow(EnrichmentOf(Post(d)["post_id"]))}
    /\ EnrichmentOf(Post(d)["post_id"])["is_job"]
    /\ EnrichmentOf(Post(d)["post_id"])["seniority"] # None
    /\ \E k \in 1..(idx[d] - 1) :
         /\ LoggedIn(run_no[d], unprocessed[d][k]["post_id"])
         /\ RowsOf(job_classifications, unprocessed[d][k]["post_id"]) = {}

\* C10: when enrich_and_store has finished handling a post, either its
\* classification row and all technology tags of that enrichment are stored,
\* or neither the row nor any tag is.
C10_TagsAndClassificationTogether ==
  \A d \in Drivers :
    pc[d] \in {"enrich", "done"} =>
      \A k \in DOMAIN unprocessed[d] :
        k < idx[d] =>
          LET id == unprocessed[d][k]["post_id"]
          IN  \/ Persisted(id)
              \/ /\ RowsOf(job_classifications, id) = {}
                 /\ RowsOf(tech_stack, id) = {}
\* The positions of the batch of driver d it has handled without logging an
\* error in this run.
Succeeded(d) ==
  {k \in 1..(idx[d] - 1) :
     k \in DOMAIN unprocessed[d] /\ ~LoggedIn(run_no[d], unprocessed[d][k]["post_id"])}

\* C11: the number of posts the driver reports as found is the number of
\* stored posts without a classification row, and the count enrich_and_store
\* keeps and returns is exactly the number of batch posts handled so far whose
\* enrichment, classification insert and tag insert all raised nothing (each of
\* them is persisted), hence between 0 and the batch size.
C11_CountIsTheSucceeded ==
  /\ [](\A d \in Drivers :
          pc[d] \in {"enrich", "done"} =>
            /\ enriched_count[d] = Cardinality(Succeeded(d))
            /\ \A k \in Succeeded(d) : Persisted(unprocessed[d][k]["post_id"])
            /\ 0 <= enriched_count[d]
            /\ enriched_count[d] <= Len(unprocessed[d]))
  /\ [][\A d \in Drivers :
          Selecting(d) =>
            Len(unprocessed'[d]) =
              Cardinality({p \in BagToSet(posts) :
                             RowsOf(job_classifications, p.post_id) = {}})]_vars

\* A run over three posts has ended with one of them enriched and persisted
\* and two logged as failed, one of these at its tag insert.
C11_Witness ==
  \E d \in Drivers :
    /\ pc[d] = "done"
    /\ Len(unprocessed[d]) = 3
    /\ enriched_count[d] = 1
    /\ \E entry \in log : entry.run = run_no[d] /\ entry.error = "TextBlob error"
    /\ \E k \in DOMAIN unprocessed[d] :
         /\ LoggedIn(run_no[d], unprocessed[d][k]["post_id"])
         /\ RowsOf(job_classifications, unprocessed[d][k]["post_id"]) # {}
-----------------------------------------------------------------------------
(* Two driver processes over one database (python -m src.pipeline.run run   *)
(* twice at the same time): their steps interleave, every database call     *)
(* being one transaction.                                                   *)

NextConc ==
  \/ \E id \in ApiPostIds : Arrive(id, FALSE)
  \/ \E d \in Drivers : DriverStep(d)

SpecConc == Init /\ [][NextConc]_vars
\* Driver d has taken post id from its batch through enrich_post,
\* insert_classification and insert_tech_stack with no error in this run.
Handled(d, id) ==
  /\ pc[d] \in {"enrich", "done"}
  /\ \E k \in 1..(idx[d] - 1) :
       k \in DOMAIN unprocessed[d] /\ unprocessed[d][k]["post_id"] = id
  /\ ~LoggedIn(run_no[d], id)

\* C12: when two drivers enrich and persist the same unclassified post
\* concurrently, then in every interleaving of their writes, once both are
\* through the store holds exactly one classification row for the post, equal
\* to enrich_post(post), and exactly the tags of that result, each once.
C12_ConcurrentEnrichmentsAgree ==
  \A id \in PostIds :
    (\A d \in Drivers : Handled(d, id)) =>
      /\ CountOf(job_classifications, id) = 1
      /\ RowsOf(job_classifications, id) = {CompleteRow(EnrichmentOf(id))}
      /\ {<<row.post_id, row.technology>> : row \in RowsOf(tech_stack, id)} = TagsOf(id)
      /\ CountOf(tech_stack, id) = Cardinality(TagsOf(id))

\* Both drivers selected the same post that names technologies while it had no
\* classification row, and both have written its classification and its tags.
C12_Witness ==
  \E id \in PostIds :
    /\ \A d \in Drivers : Handled(d, id) /\ pc[d] = "done" /\ enriched_count[d] >= 1
    /\ TagsOf(id) # {}
    /\ upserted[id].n = 2
-----------------------------------------------------------------------------
(* Frame properties of the persistence operations (checked under SpecStore, *)
(* whose call sequences are the interleavings of any number of writers,     *)
(* every call being one transaction).                                       *)

\* The rows table holds for post_id id, with their numbers of copies.
Slice(table, id) == [r \in RowsOf(table, id) |-> CopiesIn(r, table)]

\* C13: a call of insert_post, insert_classification or insert_tech_stack for
\* post_id p, whatever calls came before it and whether it returns or raises,
\* leaves the post row, the classification row and the tag rows of every other
\* post_id as they were.
C13_WritesOfDistinctPostsDoNotInterfere ==
  [][(calls' = calls + 1
        /\ ret'.op \in {"insert_post", "insert_classification", "insert_tech_stack"}) =>
       \A q \in PostIds \ {ret'.args["post_id"]} :
         /\ Slice(posts', q) = Slice(posts, q)
         /\ Slice(job_classifications', q) = Slice(job_classifications, q)
         /\ Slice(tech_stack', q) = Slice(tech_stack, q)]_vars

\* insert_classification has written the classification row of one post
\* while another post has its post row and its classification row stored.
C13_Witness ==
  /\ ret.op = "insert_classification"
  /\ ret.outcome.ok
  /\ RowsOf(job_classifications, ret.args["post_id"]) # {}
  /\ \E q \in PostIds \ {ret.args["post_id"]} :
       /\ RowsOf(posts, q) # {}
       /\ RowsOf(job_classifications, q) # {}

\* C14: insert_tech_stack never removes a tag: every (post_id, technology)
\* row stored before a call is stored after it, so the tags an earlier call
\* gave a post remain when a later call for the same post lists fewer or other
\* technologies.
C14_TagsAreNeverRemoved ==
  [][(calls' = calls + 1 /\ ret'.op = "insert_tech_stack") =>
       \A row \in BagToSet(tech_stack) :
         BagIn(row, tech_stack') /\ CopiesIn(row, tech_stack') >= CopiesIn(row, tech_stack)]_vars

\* insert_tech_stack(p, ["Python"]) has returned for a post that had the tags
\* AWS and Docker from an earlier call: both are still stored.
C14_Witness ==
  /\ ret.op = "insert_tech_stack"
  /\ ret.outcome.ok
  /\ ret.args["technologies"] = <<"Python">>
  /\ {row.technology : row \in RowsOf(tech_stack, ret.args["post_id"])} =
       {"AWS", "Docker", "Python"}
-----------------------------------------------------------------------------
(* The driver with a scraper that meets stored submissions again.           *)

\* extract_post_data of a submission seen again later: its score and its
\* number of comments have moved on.
Rescraped(id) ==
  [Submission(id) EXCEPT !["score"] = @ + 1, !["num_comments"] = @ + 1]

\* Step 1 of run_pipeline, before the selection: the scraper of this run calls
\* insert_post for a submission it sees again.
Rescrape(d, id) ==
  /\ pc[d] = "select"
  /\ LET done == insert_post(Rescraped(id))
     IN  /\ posts' = done.posts
         /\ ret' = [op |-> "insert_post", args |-> Rescraped(id), outcome |-> done.outcome]
         /\ new_posts' = (new_posts \/ done.outcome.value)
  /\ UNCHANGED <<postgres, scraper, job_classifications, tech_stack, calls, supplied, upserted, nlp,
                 pc, runs, run_no, unprocessed, idx, result, tech, enriched_count, log,
                 quiet>>

NextRescrape ==
  \/ \E id \in ApiPostIds : Arrive(id, FALSE)
  \/ \E id \in ApiPostIds : Rescrape("d1", id)
  \/ DriverStep("d1")

SpecRescrape == Init /\ [][NextRescrape]_vars

\* C15: a stored post row is immutable: no step (insert_post with the same
\* post_id and other field values, the driver's selection, insert_classification
\* and insert_tech_stack) changes or deletes it, and the step that calls
\* enrich_post leaves the post record it is given as it was.
C15_StoredPostIsImmutable ==
  [][/\ \A row \in BagToSet(posts) :
          BagIn(row, posts') /\ CopiesIn(row, posts') = CopiesIn(row, posts)
     /\ \A id \in PostIds :
          RowsOf(posts, id) # {} => RowsOf(posts', id) = RowsOf(posts, id)
     /\ \A d \in Drivers :
          (pc[d] = "enrich" /\ Moved(d)) => unprocessed'[d] = unprocessed[d]]_vars

\* insert_post has been called with other field values for a stored post that
\* a driver run has classified and tagged: it returned false and the stored row
\* holds the first values.
C15_Witness ==
  /\ ret.op = "insert_post"
  /\ ret.outcome = Return(FALSE)
  /\ \E row \in RowsOf(posts, ret.args["post_id"]) : row.score # ret.args["score"]
  /\ RowsOf(job_classifications, ret.args["post_id"]) # {}
  /\ RowsOf(tech_stack, ret.args["post_id"]) # {}
-----------------------------------------------------------------------------
(* Further properties of enrich_post and the classifiers (SpecEnrich).      *)

\* C16: enrich_post on a record without post_id raises an error that names the
\* missing field post_id; it returns no classification record and no table
\* gets a row.
C16_MissingPostIdIsAnError ==
  ("post_id" \notin DOMAIN nlp_in /\ nlp_out # Nothing) =>
    /\ ~nlp_out.ok
    /\ nlp_out.error = "KeyError: 'post_id'"
    /\ "value" \notin DOMAIN nlp_out
    /\ posts = EmptyBag
    /\ job_classifications = EmptyBag
    /\ tech_stack = EmptyBag

\* enrich_post has been called on a record that holds a hiring title and a
\* body naming technologies but no post_id.
C16_Witness ==
  /\ "post_id" \notin DOMAIN nlp_in
  /\ nlp_out # Nothing
  /\ classify_is_job(nlp_in["title"], nlp_in["body"])
  /\ extract_tech_stack(nlp_in["title"], nlp_in["body"]) # <<>>

\* The title and the body enrich_post reads from its argument.
Title == Get(nlp_in, "title", "")
Body  == Get(nlp_in, "body", "")

\* C17: the Job Gate says job exactly when the positive score is strictly
\* greater than the negative score: a tie (both scores zero included, as for an
\* empty title and an empty body) or a higher negative score gives false.
C17_JobIffPositiveExceedsNegative ==
  nlp_out.ok =>
    /\ nlp_out.value["is_job"] = classify_is_job(Title, Body)
    /\ classify_is_job(Title, Body) <=> positive_score(Title, Body) > negative_score(Title, Body)
    /\ positive_score(Title, Body) = negative_score(Title, Body) => ~nlp_out.value["is_job"]
    /\ positive_score(Title, Body) < negative_score(Title, Body) => ~nlp_out.value["is_job"]
    /\ (Title = "" /\ Body = "") =>
         /\ positive_score(Title, Body) = 0
         /\ negative_score(Title, Body) = 0
         /\ ~nlp_out.value["is_job"]

\* enrich_post has returned for a text whose positive and negative scores are
\* equal and not zero: it is no job.
C17_Witness ==
  /\ nlp_out.ok
  /\ positive_score(Title, Body) = negative_score(Title, Body)
  /\ positive_score(Title, Body) > 0
  /\ ~nlp_out.value["is_job"]

\* The entries of a phrase list that text contains.
Hits(phrases, text) == {i \in DOMAIN phrases : Contains(phrases[i], text)}

\* C18: the title boost looks at the title alone: the positive score exceeds
\* the number of positive phrases in title+body by exactly 3 when the title
\* holds a hiring signal ("[hiring]", "hiring", "job opening", "position") and
\* by 0 otherwise, the negative score likewise for the seeking signals
\* ("[for hire]", "hire me", "looking for work"), however many signals match
\* and wherever else they occur; so a '[Hiring] ...' title with an empty body
\* is a job and a '[For Hire] ... looking for work' title with an empty body is not.
C18_TitleBoostIsThreeOnceTitleOnly ==
  nlp_out.ok =>
    LET text    == lower(Title \o " " \o Body)
        hiring  == Hits(<<"[hiring]", "hiring", "job opening", "position">>, lower(Title))
        seeking == Hits(<<"[for hire]", "hire me", "looking for work">>, lower(Title))
    IN  /\ positive_score(Title, Body) =
             Cardinality(Hits(JOB_POSITIVE_PATTERNS, text)) + (IF hiring # {} THEN 3 ELSE 0)
        /\ negative_score(Title, Body) =
             Cardinality(Hits(JOB_NEGATIVE_PATTERNS, text)) + (IF seeking # {} THEN 3 ELSE 0)
        /\ (Title = "[Hiring] Senior Python Developer - Remote" /\ Body = "")
             => nlp_out.value["is_job"]
        /\ (Title = "[For Hire] Developer looking for work" /\ Body = "")
             => ~nlp_out.value["is_job"]

\* enrich_post has returned for a text whose body holds a hiring signal and
\* whose title holds none: the positive score has no boost.
C18_Witness ==
  /\ nlp_out.ok
  /\ Hits(TITLE_HIRING_SIGNALS, lower(Title)) = {}
  /\ Hits(TITLE_HIRING_SIGNALS, lower(Body)) # {}
  /\ positive_score(Title, Body) = Cardinality(Hits(JOB_POSITIVE_PATTERNS, lower(Title \o " " \o Body)))

\* The number of places of text where phrase p starts.
OccurrencesOf(p, text) ==
  Cardinality({i \in 1..(Len(text) - Len(p) + 1) : SubSeq(text, i, i + Len(p) - 1) = p})

\* The occurrences in text of all the entries of a phrase list together.
RECURSIVE OccurrencesOfAll(_, _)
OccurrencesOfAll(phrases, text) ==
  IF phrases = <<>> THEN 0
  ELSE OccurrencesOf(Head(phrases), text) + OccurrencesOfAll(Tail(phrases), text)

\* The title boost of each side.
HiringBoost == IF Hits(TITLE_HIRING_SIGNALS, lower(Title)) # {} THEN 3 ELSE 0
SeekingBoost == IF Hits(TITLE_SEEKING_SIGNALS, lower(Title)) # {} THEN 3 ELSE 0

\* C19 as stated: apart from the title boost, each side's score is the number
\* of occurrences of its phrases in the lowercased title+body, a phrase that
\* occurs twice contributing 2.
C19_EachOccurrenceCounts ==
  nlp_out.ok =>
    LET text == lower(Title \o " " \o Body)
    IN  /\ positive_score(Title, Body) - HiringBoost =
             OccurrencesOfAll(JOB_POSITIVE_PATTERNS, text)
        /\ negative_score(Title, Body) - SeekingBoost =
             OccurrencesOfAll(JOB_NEGATIVE_PATTERNS, text)

\* C19 (amended): apart from the title boost, each configured phrase that the
\* lowercased title+body contains contributes 1 to its side's score, however
\* often it occurs: a phrase that occurs twice contributes 1, and a side's
\* score never exceeds the number of its phrases.
C19_EachContainedPhraseCountsOnce ==
  nlp_out.ok =>
    LET text == lower(Title \o " " \o Body)
        Once(phrases) == Cardinality({i \in DOMAIN phrases : OccurrencesOf(phrases[i], text) >= 1})
    IN  /\ positive_score(Title, Body) - HiringBoost = Once(JOB_POSITIVE_PATTERNS)
        /\ negative_score(Title, Body) - SeekingBoost = Once(JOB_NEGATIVE_PATTERNS)
        /\ positive_score(Title, Body) - HiringBoost <= Len(JOB_POSITIVE_PATTERNS)
        /\ negative_score(Title, Body) - SeekingBoost <= Len(JOB_NEGATIVE_PATTERNS)

\* enrich_post has returned for a text in which the positive phrase "hiring"
\* occurs twice and no other positive phrase occurs: the positive score is 1.
C19_Witness ==
  /\ nlp_out.ok
  /\ OccurrencesOf("hiring", lower(Title \o " " \o Body)) = 2
  /\ OccurrencesOfAll(JOB_POSITIVE_PATTERNS, lower(Title \o " " \o Body)) = 2
  /\ HiringBoost = 0
  /\ positive_score(Title, Body) = 1

\* The number of trigger phrases of entry c of a category table that the
\* lowercased text contains.
HitCount(table, c, text) == Cardinality(Hits(table[c][2], lower(text)))

\* What C20 asks of the result of _match_patterns(text, table).
BestOf(found, table, text) ==
  /\ found = None <=> \A c \in DOMAIN table : HitCount(table, c, text) = 0
  /\ found # None =>
       \E c \in DOMAIN table :
         /\ found = Some(table[c][1])
         /\ HitCount(table, c, text) > 0
         /\ \A other \in DOMAIN table : HitCount(table, other, text) <= HitCount(table, c, text)

\* C20: _match_patterns returns None exactly when no category of the table has
\* a trigger phrase in the lowercased text, and otherwise a category of that
\* table whose hit count is positive and the maximum over the table; so each
\* of job_type, seniority, domain and work_mode of a returned record is None or
\* one category name of its own table.
C20_MatchIsAMaximalCategory ==
  nlp_out.ok =>
    LET text == Title \o " " \o Body
        Names(table) == {Some(table[c][1]) : c \in DOMAIN table}
    IN  /\ BestOf(_match_patterns(text, JOB_TYPE_PATTERNS), JOB_TYPE_PATTERNS, text)
        /\ BestOf(_match_patterns(text, SENIORITY_PATTERNS), SENIORITY_PATTERNS, text)
        /\ BestOf(_match_patterns(text, DOMAIN_PATTERNS), DOMAIN_PATTERNS, text)
        /\ BestOf(_match_patterns(text, WORK_MODE_PATTERNS), WORK_MODE_PATTERNS, text)
        /\ nlp_out.value["job_type"] \in {None} \cup Names(JOB_TYPE_PATTERNS)
        /\ nlp_out.value["seniority"] \in {None} \cup Names(SENIORITY_PATTERNS)
        /\ nlp_out.value["domain"] \in {None} \cup Names(DOMAIN_PATTERNS)
        /\ nlp_out.value["work_mode"] \in {None} \cup Names(WORK_MODE_PATTERNS)
        /\ nlp_out.value["is_job"] =>
             /\ BestOf(nlp_out.value["job_type"], JOB_TYPE_PATTERNS, text)
             /\ BestOf(nlp_out.value["seniority"], SENIORITY_PATTERNS, text)
             /\ BestOf(nlp_out.value["domain"], DOMAIN_PATTERNS, text)
             /\ BestOf(nlp_out.value["work_mode"], WORK_MODE_PATTERNS, text)

\* enrich_post has returned a job whose text has two hits for Senior and one
\* for Lead, and no job-type phrase: seniority is Senior and job_type is None.
C20_Witness ==
  /\ nlp_out.ok
  /\ nlp_out.value["is_job"]
  /\ \E c, other \in DOMAIN SENIORITY_PATTERNS :
       /\ SENIORITY_PATTERNS[c][1] = "Senior"
       /\ SENIORITY_PATTERNS[other][1] = "Lead"
       /\ c < other
       /\ HitCount(SENIORITY_PATTERNS, c, Title \o " " \o Body) = 2
       /\ HitCount(SENIORITY_PATTERNS, other, Title \o " " \o Body) = 1
  /\ nlp_out.value["seniority"] = Some("Senior")
  /\ nlp_out.value["job_type"] = None
\* The entries of a category table that share the maximum hit count for text,
\* when that maximum is positive.
Leaders(table, text) ==
  {c \in DOMAIN table :
     /\ HitCount(table, c, text) > 0
     /\ \A other \in DOMAIN table : HitCount(table, other, text) <= HitCount(table, c, text)}

\* found is the leader declared first in the table.
FirstDeclaredLeader(found, table, text) ==
  Leaders(table, text) # {} =>
    \E c \in Leaders(table, text) :
      /\ found = Some(table[c][1])
      /\ \A other \in Leaders(table, text) : c <= other

\* C21: when several categories tie for the maximum hit count, _match_patterns
\* returns the one declared first in the catalog table; the result is a
\* function of the text and the table's declaration order alone, so each of
\* job_type, seniority, domain and work_mode of a returned job is the
\* first-declared leader of its table.
C21_TieGoesToTheFirstDeclared ==
  nlp_out.ok =>
    LET text == Title \o " " \o Body
    IN  /\ FirstDeclaredLeader(_match_patterns(text, JOB_TYPE_PATTERNS), JOB_TYPE_PATTERNS, text)
        /\ FirstDeclaredLeader(_match_patterns(text, SENIORITY_PATTERNS), SENIORITY_PATTERNS, text)
        /\ FirstDeclaredLeader(_match_patterns(text, DOMAIN_PATTERNS), DOMAIN_PATTERNS, text)
        /\ FirstDeclaredLeader(_match_patterns(text, WORK_MODE_PATTERNS), WORK_MODE_PATTERNS, text)
        /\ nlp_out.value["is_job"] =>
             /\ FirstDeclaredLeader(nlp_out.value["job_type"], JOB_TYPE_PATTERNS, text)
             /\ FirstDeclaredLeader(nlp_out.value["seniority"], SENIORITY_PATTERNS, text)
             /\ FirstDeclaredLeader(nlp_out.value["domain"], DOMAIN_PATTERNS, text)
             /\ FirstDeclaredLeader(nlp_out.value["work_mode"], WORK_MODE_PATTERNS, text)

\* enrich_post has returned a job whose text has one hit for Mid and one for
\* Senior and none for Junior, and one hit each for Remote, Hybrid and On-site:
\* seniority is Mid, the second entry of its table, and work_mode is Remote.
C21_Witness ==
  /\ nlp_out.ok
  /\ nlp_out.value["is_job"]
  /\ Cardinality(Leaders(SENIORITY_PATTERNS, Title \o " " \o Body)) = 2
  /\ 1 \notin Leaders(SENIORITY_PATTERNS, Title \o " " \o Body)
  /\ nlp_out.value["seniority"] = Some("Mid")
  /\ Cardinality(Leaders(WORK_MODE_PATTERNS, Title \o " " \o Body)) = 3
  /\ nlp_out.value["work_mode"] = Some("Remote")
\* The technology names of the catalog with a trigger phrase in the lowercased,
\* padded title+body.
TriggeredTechnologies(title, body) ==
  {TECH_KEYWORDS[c][1] : c \in {k \in DOMAIN TECH_KEYWORDS :
     Hits(TECH_KEYWORDS[k][2], lower(" " \o title \o " " \o body \o " ")) # {}}}

\* A list of strings in strictly increasing order.
StrictlyIncreasing(names) ==
  \A i \in 1..(Len(names) - 1) : StrLess(names[i], names[i + 1])

\* C22: extract_tech_stack returns exactly the technology names of the catalog
\* that have a trigger phrase in the lowercased padded title+body, any number
\* of them, each once, in strictly increasing order; a text with no trigger
\* phrase gives the empty list.  The tech_stack of a returned job is that list.
C22_TechStackIsTheSortedTriggeredNames ==
  nlp_out.ok =>
    LET techs == extract_tech_stack(Title, Body)
    IN  /\ {techs[i] : i \in DOMAIN techs} = TriggeredTechnologies(Title, Body)
        /\ Len(techs) = Cardinality(TriggeredTechnologies(Title, Body))
        /\ StrictlyIncreasing(techs)
        /\ TriggeredTechnologies(Title, Body) = {} => techs = <<>>
        /\ nlp_out.value["is_job"] => nlp_out.value["tech_stack"] = techs

\* enrich_post has returned a job with at least three technologies, two of
\* which stand in the catalog in the opposite order ("React" is declared
\* before "AWS").
C22_Witness ==
  /\ nlp_out.ok
  /\ nlp_out.value["is_job"]
  /\ Len(nlp_out.value["tech_stack"]) >= 3
  /\ \E i, j \in DOMAIN nlp_out.value["tech_stack"] :
       /\ i < j
       /\ nlp_out.value["tech_stack"][i] = "AWS"
       /\ nlp_out.value["tech_stack"][j] = "React"
\* m of C23: the number of distinct urgency phrases in the lowercased title+body.
UrgencyMatches == Cardinality(Hits(URGENCY_PATTERNS, lower(Title \o " " \o Body)))

C24_SentimentIsUnconditional ==
  nlp_out.ok =>
    /\ nlp_out.value["sentiment_score"] # None
    /\ nlp_out.value["sentiment_score"] = Some(compute_sentiment(Title, Body))
    /\ compute_sentiment(Title, Body) \in -1000..1000

\* enrich_post has returned a post that is not a job and whose text has a
\* polar word: its sentiment score is the nonzero sentiment of its text.
C24_Witness ==
  /\ nlp_out.ok
  /\ ~nlp_out.value["is_job"]
  /\ compute_sentiment(Title, Body) # 0
  /\ nlp_out.value["sentiment_score"] = Some(compute_sentiment(Title, Body))
  /\ nlp_out.value["urgency_score"] = Some(0)
-----------------------------------------------------------------------------
(* The two backends (SpecStore, which starts on either backend).            *)

-----------------------------------------------------------------------------
(* Tags and classifications under driver runs (SpecConc: two drivers, whose  *)
(* runs may follow one another or overlap).                                 *)

\* C26: every stored technology tag belongs to a post that has a
\* classification row with is_job true: no tag exists for an unclassified post
\* or for a post classified as not a job.
C26_TagsBelongToClassifiedJobs ==
  \A tag \in BagToSet(tech_stack) :
    /\ RowsOf(job_classifications, tag.post_id) # {}
    /\ \A row \in RowsOf(job_classifications, tag.post_id) : row.is_job

\* Both drivers have worked: one post is classified as a job and has tags, and
\* another post, whose text names technologies, is classified as not a job and
\* has no tag.
C26_Witness ==
  /\ \A d \in Drivers : enriched_count[d] >= 1
  /\ \E id \in PostIds :
       /\ RowsOf(tech_stack, id) # {}
       /\ \E row \in RowsOf(job_classifications, id) : row.is_job
  /\ \E id \in PostIds :
       /\ RowsOf(tech_stack, id) = {}
       /\ \E row \in RowsOf(job_classifications, id) : ~row.is_job
       /\ \E p \in RowsOf(posts, id) : extract_tech_stack(p.title, p.body) # <<>>
-----------------------------------------------------------------------------
(* Progress of a driver run (SpecLive).  run_pipeline is a sequential       *)
(* program: once started, the process executes its next statement, and     *)
(* every database call returns or raises.                                   *)

\* A step of driver d inside a started run.
Proceed(d) == pc[d] \in {"select", "enrich", "classify", "tags"} /\ DriverStep(d)

NextLive ==
  \/ \E id \in ApiPostIds : Arrive(id, FALSE)
  \/ DriverStep("d1")

SpecLive == Init /\ [][NextLive]_vars /\ WF_vars(Proceed("d1"))

\* An enrichment or persistence error has occurred in the current run of d.
ErrorIn(d) == pc[d] = "crashed" \/ \E entry \in log : entry.run = run_no[d]

\* The stored posts without a classification row.
Unclassified == {id \in PostIds : RowsOf(posts, id) # {} /\ RowsOf(job_classifications, id) = {}}

\* What holds of a run on both backends: the selection takes exactly the posts
\* stored and unclassified at that moment; a run that ends without an error
\* has classified every post it selected; the run classifies no post outside
\* its selection; a run ends or meets an error; and a post that is stored when
\* a run is about to select is classified in the end unless the run meets an
\* error.
RunClassifiesItsSelection ==
  /\ [][Selecting("d1") => Ids(unprocessed'["d1"]) = Unclassified]_vars
  /\ [](pc["d1"] = "done" /\ ~ErrorIn("d1") =>
          \A id \in Ids(unprocessed["d1"]) : RowsOf(job_classifications, id) # {})
  /\ [][\A id \in PostIds :
          RowsOf(job_classifications, id) = {} /\ RowsOf(job_classifications', id) # {}
            => id \in Ids(unprocessed["d1"])]_vars
  /\ (pc["d1"] = "select") ~> (pc["d1"] = "done" \/ ErrorIn("d1"))
  /\ \A id \in PostIds :
       (pc["d1"] = "select" /\ RowsOf(posts, id) # {})
         ~> (RowsOf(job_classifications, id) # {} \/ ErrorIn("d1"))

\* C27: if no enrichment or persistence error occurs, a run terminates and
\* every post stored and unclassified at its selection has a classification
\* row when it ends, a post inserted after the selection stays unclassified
\* until a later run, and under repeated runs every stored post is eventually
\* classified.  So the selection of a run does not fail unless the database
\* call fails (every outcome of get_unprocessed_posts on a working database is
\* a returned list), and the run goes on as RunClassifiesItsSelection says.
C27_ErrorFreeRunClassifiesItsSelection ==
  /\ [](pc["d1"] = "select" => \A outcome \in get_unprocessed_posts : outcome.ok)
  /\ RunClassifiesItsSelection
-----------------------------------------------------------------------------
(* The pipeline with its scrape step (src/scrape/reddit_scraper.py and      *)
(* run_pipeline with skip_scrape false; specification SpecScrape).  Two     *)
(* pipeline processes run; scrape_all is modelled over one subreddit of     *)
(* TARGET_SUBREDDITS.                                                       *)

\* The subreddit scraped.
SubredditName == "forhire"

\* Bound: the feeds subreddit.new(limit) can yield to one call: one submission,
\* two submissions, and one submission listed twice.
Feeds == {<<"p1">>, <<"p1", "p2">>, <<"p2", "p2">>}

\* extract_post_data(submission) for the submission with this id, as fetched
\* first or as fetched again after more votes and comments.
extract_post_data(id, again) == IF again THEN Rescraped(id) ELSE Submission(id)

\* get_existing_post_ids(subreddit): conn.execute(...) on the connection.  A
\* sqlite3 connection has execute(); a psycopg2 connection has not.
get_existing_post_ids(subreddit) ==
  IF postgres THEN Raise("AttributeError: 'connection' object has no attribute 'execute'")
  ELSE Return({p.post_id : p \in {r \in BagToSet(posts) : r.subreddit = subreddit}})

\* run_pipeline(skip_scrape=False) up to step 1: init_db(), scraped_count = 0,
\* then scrape_all() is entered.
RunPipelineScraping(d) ==
  /\ pc[d] \in {"idle", "done", "crashed"}
  /\ runs < MaxRuns
  /\ runs' = runs + 1
  /\ run_no' = [run_no EXCEPT ![d] = runs + 1]
  /\ pc' = [pc EXCEPT ![d] = "scrape"]
  /\ unprocessed' = [unprocessed EXCEPT ![d] = <<>>]
  /\ idx' = [idx EXCEPT ![d] = 0]
  /\ result' = [result EXCEPT ![d] = Nothing]
  /\ tech' = [tech EXCEPT ![d] = <<>>]
  /\ enriched_count' = [enriched_count EXCEPT ![d] = 0]
  /\ quiet' = [quiet EXCEPT ![d] = FALSE]
  /\ NewRun(d, FALSE)
  /\ UNCHANGED <<postgres, store, api, supplied, upserted, nlp, log, new_posts>>

\* create_reddit_client(), then in scrape_subreddit, before its try block:
\* existing_ids = get_existing_post_ids(subreddit_name); new_posts = [].  An
\* exception here ends run_pipeline.
GetExistingPostIds(d, fails) ==
  /\ pc[d] = "scrape"
  /\ LET outcome == IF fails THEN Failed ELSE get_existing_post_ids(SubredditName)
     IN  IF outcome.ok
         THEN /\ existing_ids' = [existing_ids EXCEPT ![d] = outcome.value]
              /\ \E submissions \in Feeds : feed' = [feed EXCEPT ![d] = submissions]
              /\ cursor' = [cursor EXCEPT ![d] = 1]
              /\ pc' = [pc EXCEPT ![d] = "fetch"]
         ELSE /\ pc' = [pc EXCEPT ![d] = "crashed"]
              /\ UNCHANGED <<existing_ids, feed, cursor>>
  /\ UNCHANGED <<postgres, store, api, supplied, upserted, nlp, runs, run_no, unprocessed,
                 idx, result, tech, enriched_count, log, new_posts, quiet, skip_scrape,
                 scraped, scraped_count>>

\* scrape_subreddit returns new_posts; scrape_all returns them and run_pipeline
\* sets scraped_count = len(new_posts) and goes on to step 2.
ReturnNewPosts(d) ==
  /\ scraped_count' = [scraped_count EXCEPT ![d] = Len(scraped[d])]
  /\ pc' = [pc EXCEPT ![d] = "select"]

\* ScrapeSubmission appending whatever insert_post returns.
ScrapeSubmissionUnchecked(d, again, fails) ==
  /\ pc[d] = "fetch"
  /\ cursor[d] <= Len(feed[d])
  /\ LET id        == feed[d][cursor[d]]
         post_data == extract_post_data(id, again)
         done      == insert_post(post_data)
     IN  IF fails
         THEN /\ log' = log \cup {[run |-> run_no[d], subreddit |-> SubredditName,
                                    error |-> Failed.error]}
              /\ ReturnNewPosts(d)
              /\ UNCHANGED <<posts, scraped, cursor, new_posts>>
         ELSE /\ IF id \notin existing_ids[d]
                 THEN /\ posts' = done.posts
                      /\ new_posts' = (new_posts \/ done.outcome.value)
                      /\ scraped' = [scraped EXCEPT ![d] = Append(@, post_data)]
                 ELSE UNCHANGED <<posts, scraped, new_posts>>
              /\ cursor' = [cursor EXCEPT ![d] = @ + 1]
              /\ UNCHANGED <<log, pc, scraped_count>>
  /\ UNCHANGED <<postgres, job_classifications, tech_stack, api, supplied, upserted, nlp,
                 runs, run_no, unprocessed, idx, result, tech, enriched_count, quiet,
                 skip_scrape, existing_ids, feed>>

\* One iteration of `for submission in subreddit.new(limit=limit)`: a
\* submission not in existing_ids is inserted and appended to new_posts when
\* insert_post returns true.  An exception (of the forum API or of
\* insert_post) is logged and ends the loop.
ScrapeSubmission(d, again, fails) ==
  /\ pc[d] = "fetch"
  /\ cursor[d] <= Len(feed[d])
  /\ LET id        == feed[d][cursor[d]]
         post_data == extract_post_data(id, again)
         done      == insert_post(post_data)
     IN  IF fails
         THEN /\ log' = log \cup {[run |-> run_no[d], subreddit |-> SubredditName,
                                    error |-> Failed.error]}
              /\ ReturnNewPosts(d)
              /\ UNCHANGED <<posts, scraped, cursor, new_posts>>
         ELSE /\ IF id \notin existing_ids[d]
                 THEN /\ posts' = done.posts
                      /\ new_posts' = (new_posts \/ done.outcome.value)
                      /\ scraped' = [scraped EXCEPT ![d] =
                                       IF done.outcome.value THEN Append(@, post_data) ELSE @]
                 ELSE UNCHANGED <<posts, scraped, new_posts>>
              /\ cursor' = [cursor EXCEPT ![d] = @ + 1]
              /\ UNCHANGED <<log, pc, scraped_count>>
  /\ UNCHANGED <<postgres, job_classifications, tech_stack, api, supplied, upserted, nlp,
                 runs, run_no, unprocessed, idx, result, tech, enriched_count, quiet,
                 skip_scrape, existing_ids, feed>>

\* The feed is exhausted: scrape_subreddit returns.
EndOfFeed(d) ==
  /\ pc[d] = "fetch"
  /\ cursor[d] > Len(feed[d])
  /\ ReturnNewPosts(d)
  /\ UNCHANGED <<postgres, store, api, supplied, upserted, nlp, runs, run_no, unprocessed,
                 idx, result, tech, enriched_count, log, new_posts, quiet, skip_scrape,
                 existing_ids, feed, cursor, scraped>>

\* One step of scrape_all() in pipeline process d.
ScrapeStep(d) ==
  \/ RunPipelineScraping(d)
  \/ \E fails \in BOOLEAN : GetExistingPostIds(d, fails)
  \/ \E again, fails \in BOOLEAN : ScrapeSubmission(d, again, fails)
  \/ EndOfFeed(d)

\* The scrape steps of two pipeline processes, up to the return of scrape_all.
NextScrape == \E d \in Drivers : ScrapeStep(d)

SpecScrape == Init /\ [][NextScrape]_vars

\* A pipeline process that scrapes submissions as first fetched, beside one
\* that skips the scrape.
NextPipeline ==
  \/ RunPipelineScraping("d1")
  \/ \E fails \in BOOLEAN : GetExistingPostIds("d1", fails)
  \/ \E fails \in BOOLEAN : ScrapeSubmission("d1", FALSE, fails)
  \/ EndOfFeed("d1")
  \/ DriverStep("d1")
  \/ DriverStep("d2")

SpecPipeline == Init /\ [][NextPipeline]_vars

\* The post_ids of the posts a scrape has reported as new so far.
Reported(d) == Ids(scraped[d])

\* C28: scrape_subreddit returns exactly the posts its call newly inserted: a
\* step appends a post to new_posts exactly when that step inserts the post's
\* row into posts, which was not stored before; no step changes or removes a
\* stored post; every reported post is stored as reported and was not in
\* existing_ids; no post_id appears twice in one result, also when the feed
\* lists a submission twice, and no post is reported by both of two scrapers
\* that run at the same time.
C28_ScrapeReportsExactlyTheNewPosts ==
  /\ [][\A d \in Drivers :
          /\ scraped'[d] # scraped[d] /\ pc[d] = "fetch" =>
               \E id \in PostIds :
                 /\ RowsOf(posts, id) = {}
                 /\ Len(scraped'[d]) = Len(scraped[d]) + 1
                 /\ SubSeq(scraped'[d], 1, Len(scraped[d])) = scraped[d]
                 /\ scraped'[d][Len(scraped'[d])]["post_id"] = id
                 /\ RowsOf(posts', id) = {PostRow(scraped'[d][Len(scraped'[d])])}
          /\ posts' # posts /\ pc[d] = "fetch" /\ cursor'[d] # cursor[d] =>
               /\ scraped'[d] # scraped[d]
               /\ \A other \in Drivers \ {d} : scraped'[other] = scraped[other]]_vars
  /\ [][\A row \in BagToSet(posts) :
          BagIn(row, posts') /\ CopiesIn(row, posts') = CopiesIn(row, posts)]_vars
  /\ [](\A d \in Drivers :
          /\ \A k \in DOMAIN scraped[d] :
               /\ RowsOf(posts, scraped[d][k]["post_id"]) = {PostRow(scraped[d][k])}
               /\ scraped[d][k]["post_id"] \notin existing_ids[d]
          /\ \A j, k \in DOMAIN scraped[d] :
               scraped[d][j]["post_id"] = scraped[d][k]["post_id"] => j = k
          /\ \A other \in Drivers \ {d} : Reported(d) \cap Reported(other) = {})

\* Two scrapers have run at the same time over feeds that both list a post
\* neither found in existing_ids, one feed listing it twice: both have
\* returned, and the post is in the result of exactly one of them, once.
C28_Witness ==
  /\ \A d \in Drivers : pc[d] = "select" /\ cursor[d] > Len(feed[d])
  /\ \E id \in PostIds :
       /\ \A d \in Drivers :
            /\ id \notin existing_ids[d]
            /\ \E k \in DOMAIN feed[d] : feed[d][k] = id
       /\ \E d \in Drivers : feed[d] = <<id, id>>
       /\ Cardinality({d \in Drivers : id \in Reported(d)}) = 1
       /\ \A d \in Drivers :
            Cardinality({k \in DOMAIN scraped[d] : scraped[d][k]["post_id"] = id}) <= 1

\* The order of the steps of run_pipeline in process d: the scrape (when not
\* skipped) starts the run, the selection follows the return of the scrape or,
\* with skip_scrape, the start of the run, and enrichment follows the selection.
StepsInOrder(d) ==
  /\ pc'[d] = "scrape" /\ pc[d] # "scrape" => pc[d] \in {"idle", "done", "crashed"} /\ ~skip_scrape'[d]
  /\ pc'[d] = "fetch" /\ pc[d] # "fetch" => pc[d] = "scrape"
  /\ pc'[d] = "select" /\ pc[d] # "select" =>
       IF skip_scrape'[d] THEN pc[d] \in {"idle", "done", "crashed"} ELSE pc[d] = "fetch"
  /\ pc'[d] = "enrich" /\ pc[d] \notin {"enrich", "classify", "tags"} => pc[d] = "select"
  /\ scraped'[d] # scraped[d] /\ scraped'[d] # <<>> => pc[d] = "fetch" /\ ~skip_scrape[d]
  /\ pc'[d] = "done" /\ pc[d] # "done" => pc[d] = "enrich" /\ idx[d] > Len(unprocessed[d])

\* With skip_scrape set, process d is at no scrape step, has scraped nothing
\* and reports a scraped count of 0.
NoScrapeWhenSkipped(d) ==
  skip_scrape[d] =>
    /\ pc[d] \notin {"scrape", "fetch"}
    /\ scraped[d] = <<>>
    /\ scraped_count[d] = 0

\* C29 as stated: run_pipeline performs initialise, scrape, select, enrich in
\* this order; every post newly inserted by the scrape step of a run is among
\* the posts the same run selects for its enrichment step; with skip_scrape no
\* scrape happens and the reported scraped count is 0.
C29_ScrapedPostsAreAttemptedByTheSameRun ==
  /\ [][\A d \in Drivers :
          /\ StepsInOrder(d)
          /\ (Selecting(d) /\ ~skip_scrape[d]) => Ids(scraped[d]) \subseteq Ids(unprocessed'[d])]_vars
  /\ [][posts' # posts => \E d \in Drivers : pc[d] = "fetch" /\ ~skip_scrape[d]]_vars
  /\ [](\A d \in Drivers : NoScrapeWhenSkipped(d))

\* C29 (amended): run_pipeline performs initialise, scrape, select, enrich in
\* this order; every post newly inserted by the scrape step of a run is among
\* the posts the same run selects for its enrichment step unless the post has
\* a classification row by then (stored by another run between the scrape and
\* the selection); the run attempts every post it selected before it returns;
\* a stored post is inserted only by the scrape step of a run that does not
\* skip the scrape; with skip_scrape no scrape happens and the reported
\* scraped count is 0, and after a scrape it is the number of new posts.
C29_ScrapedPostsAreAttemptedUnlessClassified ==
  /\ [][\A d \in Drivers :
          /\ StepsInOrder(d)
          /\ (Selecting(d) /\ ~skip_scrape[d]) =>
               /\ \A id \in Ids(scraped[d]) :
                    \/ id \in Ids(unprocessed'[d])
                    \/ RowsOf(job_classifications, id) # {}
               /\ scraped_count[d] = Len(scraped[d])]_vars
  /\ [][posts' # posts => \E d \in Drivers : pc[d] = "fetch" /\ ~skip_scrape[d]]_vars
  /\ [](\A d \in Drivers : NoScrapeWhenSkipped(d))

\* A run that scraped has ended after selecting a post it newly inserted and
\* storing its classification, while a run that skipped the scrape reports 0.
C29_Witness ==
  /\ pc["d1"] = "done"
  /\ ~skip_scrape["d1"]
  /\ scraped_count["d1"] >= 1
  /\ Ids(scraped["d1"]) \subseteq Ids(unprocessed["d1"])
  /\ \A id \in Ids(scraped["d1"]) : RowsOf(job_classifications, id) # {}
  /\ enriched_count["d1"] >= 1

\* insert_tech_stack_interrupted on a connection that commits every statement
\* as it is executed.
insert_tech_stack_interrupted_autocommit(post_id, technologies, k) ==
  LET executed == InsertTags(tech_stack, post_id, SubSeq(technologies, 1, k - 1))
  IN  [tech_stack |-> executed,
       executed |-> executed,
       outcome |-> Failed]

\* insert_tech_stack whose k-th cursor.execute raises: the first k - 1 inserts
\* were executed in the connection's open transaction (autocommit is off on
\* both backends), conn.commit() is not reached, and `finally: conn.close()`
\* discards the transaction, so the stored table is the one before the call.
insert_tech_stack_interrupted(post_id, technologies, k) ==
  LET executed == InsertTags(tech_stack, post_id, SubSeq(technologies, 1, k - 1))
  IN  [tech_stack |-> tech_stack,
       executed |-> executed,
       outcome |-> Failed]

\* A call of insert_tech_stack in which the insert of pair k fails.
CallInsertTechStackInterrupted(post_id, technologies, k) ==
  /\ calls < MaxCalls
  /\ calls' = calls + 1
  /\ k \in DOMAIN technologies
  /\ LET done == insert_tech_stack_interrupted(post_id, technologies, k)
         args == [post_id |-> post_id, technologies |-> technologies, failed_at |-> k]
     IN  /\ ret' = [op |-> "insert_tech_stack", args |-> args, outcome |-> done.outcome]
         /\ tech_stack' = done.tech_stack
  /\ UNCHANGED <<postgres, scraper, posts, job_classifications, supplied, upserted, nlp, driver>>

\* Posts are stored, and calls of insert_tech_stack return, fail before the
\* first insert, or fail at one of their pairs.
NextTags ==
  \/ \E post_data \in PostInputs : CallInsertPost(post_data, FALSE)
  \/ \E post_id \in ApiPostIds, technologies \in TechListInputs, fails \in BOOLEAN :
       CallInsertTechStack(post_id, technologies, fails)
  \/ \E post_id \in ApiPostIds, technologies \in TechListInputs, k \in 1..3 :
       CallInsertTechStackInterrupted(post_id, technologies, k)

SpecTags == InitStore /\ [][NextTags]_vars

\* The (post_id, technology) pairs of one call.
PairsOf(post_id, technologies) ==
  {[post_id |-> post_id, technology |-> technologies[k]] : k \in DOMAIN technologies}

\* C30: insert_tech_stack is all-or-nothing per call: a call that returns has
\* stored every one of its pairs in one step, and a call that raises, at
\* whichever pair, stores none of its pairs that were not stored before and
\* leaves the tags stored before the call unchanged.
C30_InsertTechStackIsAllOrNothing ==
  [][(calls' # calls /\ ret'.op = "insert_tech_stack") =>
       IF ret'.outcome.ok
       THEN /\ \A row \in PairsOf(ret'.args.post_id, ret'.args.technologies) :
                 CopiesIn(row, tech_stack') = 1
            /\ \A row \in BagToSet(tech_stack') :
                 \/ CopiesIn(row, tech_stack) = CopiesIn(row, tech_stack')
                 \/ row \in PairsOf(ret'.args.post_id, ret'.args.technologies)
            /\ \A row \in BagToSet(tech_stack) : BagIn(row, tech_stack')
       ELSE tech_stack' = tech_stack]_vars

\* A call failed at its third pair after executing the inserts of two pairs
\* of which at least one was new: none of the new pairs is stored, and the
\* tags stored by an earlier call are still there.
C30_Witness ==
  /\ ret.op = "insert_tech_stack"
  /\ ~ret.outcome.ok
  /\ "failed_at" \in DOMAIN ret.args
  /\ ret.args.failed_at = 3
  /\ tech_stack # EmptyBag
  /\ \E k \in 1..2 :
       ~BagIn([post_id |-> ret.args.post_id, technology |-> ret.args.technologies[k]], tech_stack)

=============================================================================
